---- MODULE Spec2Model ----
(***************************************************************************)
(* Two-factor authentication, trusted devices and login throttle of the    *)
(* NextApp repository, as a state machine.                                 *)
(*                                                                         *)
(*   SpecThrottle : the in-memory rate limiter of                          *)
(*                  app/api/auth/login-attempt/route.ts                    *)
(*   SpecRetry, SpecAccounts, SpecConcurrent : the same rate limiter with  *)
(*                  callers that wait out a denial, with many origins, and *)
(*                  with requests suspended at the same time               *)
(*   Spec         : the login flow, the 2FA routes, the profile and        *)
(*                  settings routes and the trusted-device ledger          *)
(***************************************************************************)
EXTENDS Integers, Sequences, FiniteSets, TLC

VARIABLES
    now,            \* Date.now(), in milliseconds
    emailAttempts,  \* Map<string, Entry> keyed by normalised e-mail
    ipAttempts,     \* Map<string, Entry> keyed by client IP
    calls,          \* number of login-attempt requests handled so far
    ticks,          \* number of clock advances so far
    lastDenied,     \* per account key: the latest 429 answered to a call carrying it
    inflight,       \* per login-attempt request: how far its handler has run
    last,           \* the last request handled together with its response
    schema,         \* which migrations the database has had
    prefs,          \* profiles.preferences of every user
    devices,        \* rows of table trusted_devices
    session,        \* per browser: the user whose Supabase session it holds
    cookie,         \* per browser: value of the trusted_device cookie
    pc,             \* per browser: position in the login flow
    nextToken,      \* number of raw tokens crypto.randomBytes has produced
    failedCodes     \* per browser: codes rejected since the challenge began

throttleVars == <<now, emailAttempts, ipAttempts, calls, ticks, lastDenied, inflight>>
appVars == <<schema, prefs, devices, session, cookie, pc, nextToken, failedCodes>>
vars == <<now, emailAttempts, ipAttempts, calls, ticks, lastDenied, inflight, last,
          schema, prefs, devices, session, cookie, pc, nextToken, failedCodes>>

----------------------------------------------------------------------------
(* Bounds of the model *)

MaxCalls == 7
MaxTicks == 2
MaxLogins == 2
MaxTokens == 2
MaxFailed == 1
MaxRequests == 6

----------------------------------------------------------------------------
(* Login throttle: app/api/auth/login-attempt/route.ts *)

EMAIL_WINDOW_MS == 15 * 60 * 1000
EMAIL_MAX == 5
IP_WINDOW_MS == 60 * 60 * 1000
IP_MAX == 200

NoEntry == [count |-> 0, windowStart |-> -1]

\* Requests whose handler may be under way at the same time
Requests == 1..MaxRequests
Idle == [pc |-> "idle"]
NoneInFlight == [q \in Requests |-> Idle]
NoKey == "(none)"
None == "(null)"

EmailKeys == {"a@x.io", "b@x.io"}
\* origins a request can come from
OriginOrder == <<"10.0.0.1", "10.0.0.2", "10.0.0.3", "10.0.0.4", "10.0.0.5", "10.0.0.6">>
Origins == {OriginOrder[i] : i \in DOMAIN OriginOrder}
IpKeys == Origins \cup {"unknown"}

\* Request bodies: the e-mail field as the client sent it.  `form` tells how the
\* text differs from its normalised key (letter case, surrounding blanks); a
\* body without a string e-mail has form "not-a-string".
RawEmailsOf(keys) ==
    [key : keys, form : {"plain", "UPPER-padded"}]
    \cup {[key |-> "", form |-> "blank"], [key |-> "", form |-> "not-a-string"]}

\* x-forwarded-for / x-real-ip header values ("" = header absent)
ForwardedFor == {"", "10.0.0.1", "10.0.0.1, 10.9.9.9"}

\* typeof body?.email === 'string' ? body.email.toLowerCase().trim() : null
NormaliseEmail(raw) ==
    IF raw.form = "not-a-string" THEN NoKey
    ELSE IF raw.key = "" THEN NoKey      \* '' is falsy in `if (email)`
    ELSE raw.key

\* xff.split(',')[0].trim() || 'unknown'
ClientIp(xff) ==
    IF xff = "" THEN "unknown"
    ELSE IF xff = "10.0.0.1, 10.9.9.9" THEN "10.0.0.1"
    ELSE xff

CeilDiv(a, b) == (a + b - 1) \div b

\* an incrMap that opens a new window only after the old one is strictly past
MutIncrMapStrictWindow(map, key, windowMs, n) ==
    IF map[key] = NoEntry \/ map[key].windowStart + windowMs < n
    THEN [map EXCEPT ![key] = [count |-> 1, windowStart |-> n]]
    ELSE [map EXCEPT ![key].count = @ + 1]

incrMap(map, key, windowMs, n) ==
    IF map[key] = NoEntry \/ map[key].windowStart + windowMs <= n
    THEN [map EXCEPT ![key] = [count |-> 1, windowStart |-> n]]
    ELSE [map EXCEPT ![key].count = @ + 1]

Max(a, b) == IF a >= b THEN a ELSE b

\* a getRemaining that reports the elapsed part of the window, not the rest
MutGetRemainingElapsed(map, key, max, windowMs, n) ==
    LET e == map[key] IN
    IF e = NoEntry THEN [remaining |-> max, retryAfter |-> 0]
    ELSE IF n - e.windowStart >= windowMs THEN [remaining |-> max, retryAfter |-> 0]
    ELSE [remaining  |-> Max(0, max - e.count),
          retryAfter |-> CeilDiv(n - e.windowStart, 1000)]

getRemaining(map, key, max, windowMs, n) ==
    LET e == map[key] IN
    IF e = NoEntry THEN [remaining |-> max, retryAfter |-> 0]
    ELSE IF n - e.windowStart >= windowMs THEN [remaining |-> max, retryAfter |-> 0]
    ELSE [remaining  |-> Max(0, max - e.count),
          retryAfter |-> CeilDiv(windowMs - (n - e.windowStart), 1000)]

\* The synchronous part of the POST handler, everything after
\* `await req.json()`, run on the maps as it finds them: the maps after the
\* call and the response.
ThrottleHandler(ipFound, emailFound, raw, xff) ==
    LET email == NormaliseEmail(raw)
        ip    == ClientIp(xff)
        ipMap == incrMap(ipFound, ip, IP_WINDOW_MS, now)
        emMap == IF email = NoKey THEN emailFound
                 ELSE incrMap(emailFound, email, EMAIL_WINDOW_MS, now)
    IN  IF ipMap[ip].count > IP_MAX
        THEN [ip |-> ipMap, email |-> emailFound,
              resp |-> [status |-> 429, error |-> "Too many requests from this IP",
                        retryAfter |-> getRemaining(ipMap, ip, IP_MAX, IP_WINDOW_MS, now).retryAfter]]
        ELSE IF email # NoKey /\ emMap[email].count > EMAIL_MAX
        THEN [ip |-> ipMap, email |-> emMap,
              resp |-> [status |-> 429, error |-> "Too many login attempts for this account",
                        retryAfter |-> getRemaining(emMap, email, EMAIL_MAX, EMAIL_WINDOW_MS, now).retryAfter]]
        ELSE [ip |-> ipMap, email |-> emMap,
              resp |-> [status |-> 200, error |-> None, retryAfter |-> 0]]

\* a handler that counts the account key before it looks at the origin counter
MutThrottleCountsAccountFirst(raw, xff) ==
    LET email == NormaliseEmail(raw)
        ip    == ClientIp(xff)
        ipMap == incrMap(ipAttempts, ip, IP_WINDOW_MS, now)
        emMap == IF email = NoKey THEN emailAttempts
                 ELSE incrMap(emailAttempts, email, EMAIL_WINDOW_MS, now)
    IN  IF ipMap[ip].count > IP_MAX
        THEN [ip |-> ipMap, email |-> emMap,
              resp |-> [status |-> 429, error |-> "Too many requests from this IP",
                        retryAfter |-> getRemaining(ipMap, ip, IP_MAX, IP_WINDOW_MS, now).retryAfter]]
        ELSE IF email # NoKey /\ emMap[email].count > EMAIL_MAX
        THEN [ip |-> ipMap, email |-> emMap,
              resp |-> [status |-> 429, error |-> "Too many login attempts for this account",
                        retryAfter |-> getRemaining(emMap, email, EMAIL_MAX, EMAIL_WINDOW_MS, now).retryAfter]]
        ELSE [ip |-> ipMap, email |-> emMap,
              resp |-> [status |-> 200, error |-> None, retryAfter |-> 0]]

\* a handler whose account limit applies only to an origin seen before in
\* its window
MutThrottleAccountNeedsBusyOrigin(raw, xff) ==
    LET email == NormaliseEmail(raw)
        ip    == ClientIp(xff)
        ipMap == incrMap(ipAttempts, ip, IP_WINDOW_MS, now)
        emMap == IF email = NoKey THEN emailAttempts
                 ELSE incrMap(emailAttempts, email, EMAIL_WINDOW_MS, now)
    IN  IF ipMap[ip].count > IP_MAX
        THEN [ip |-> ipMap, email |-> emailAttempts,
              resp |-> [status |-> 429, error |-> "Too many requests from this IP",
                        retryAfter |-> getRemaining(ipMap, ip, IP_MAX, IP_WINDOW_MS, now).retryAfter]]
        ELSE IF email # NoKey /\ emMap[email].count > EMAIL_MAX /\ ipMap[ip].count > 1
        THEN [ip |-> ipMap, email |-> emMap,
              resp |-> [status |-> 429, error |-> "Too many login attempts for this account",
                        retryAfter |-> getRemaining(emMap, email, EMAIL_MAX, EMAIL_WINDOW_MS, now).retryAfter]]
        ELSE [ip |-> ipMap, email |-> emMap,
              resp |-> [status |-> 200, error |-> None, retryAfter |-> 0]]

\* The POST handler when no other request runs between its steps.
ThrottlePOST(raw, xff) == ThrottleHandler(ipAttempts, emailAttempts, raw, xff)

\* The account window a call at the current time falls into (-1: none open)
CurrentWindow(map, key) ==
    IF map[key] # NoEntry /\ now - map[key].windowStart < EMAIL_WINDOW_MS
    THEN map[key].windowStart ELSE -1

LoginAttempt(raw, xff) ==
    /\ calls < MaxCalls
    /\ LET r     == ThrottlePOST(raw, xff)
           email == NormaliseEmail(raw)
       IN  /\ ipAttempts' = r.ip
           /\ emailAttempts' = r.email
           /\ last' = [op |-> "login-attempt", email |-> email,
                       ip |-> ClientIp(xff), at |-> now,
                       status |-> r.resp.status, error |-> r.resp.error,
                       retryAfter |-> r.resp.retryAfter]
           /\ lastDenied' =
                IF email # NoKey /\ r.resp.status = 429
                THEN [lastDenied EXCEPT ![email] =
                        [window |-> CurrentWindow(r.email, email),
                         retryAfter |-> r.resp.retryAfter,
                         error |-> r.resp.error]]
                ELSE lastDenied
    /\ calls' = calls + 1
    /\ UNCHANGED <<now, ticks, inflight>>
    /\ UNCHANGED appVars

\* Time passes between requests.
TickSteps == {450500, 900000}

Tick(d) ==
    /\ ticks < MaxTicks
    /\ now' = now + d
    /\ ticks' = ticks + 1
    /\ UNCHANGED <<emailAttempts, ipAttempts, calls, lastDenied, inflight, last>>
    /\ UNCHANGED appVars

----------------------------------------------------------------------------
(* Data model of the application *)

Users == {"u1", "u2"}
Browsers == {"b1"}
NoUser == "(no user)"

\* Credential Store: the account e-mail of every user
EmailOf == [u \in Users |-> IF u = "u1" THEN "a@x.io" ELSE "b@x.io"]
UserOfEmail(e) == CHOOSE u \in Users : EmailOf[u] = e

\* TOTP secrets the authenticator library can generate
Secrets == {"S1"}

\* preferences.totp: absent, or the object written by the enrollment verify
NoTotp == [absent |-> TRUE]
\* preferences keys other than totp (the settings page's theme stands for them)
NoTheme == "(unset)"
Themes == {"dark"}
NoPrefs == [totp |-> NoTotp, theme |-> NoTheme]
SavedPrefs == [totp |-> NoTotp, theme |-> "dark"]

\* Values of the trusted_device cookie: none, the hex text of 32 random bytes
\* (identified by the ordinal of its generation), or a legacy value of the
\* form `${userId}:...`.
NoCookie == [kind |-> "none", uid |-> NoUser, n |-> 0]
RawToken(n) == [kind |-> "hex", uid |-> NoUser, n |-> n]
LegacyCookie(u) == [kind |-> "legacy", uid |-> u, n |-> 0]
\* hex text the server never generated
ForgedToken == RawToken(0)
\* values a client can put into its cookie jar by itself
ClientCookies == {NoCookie, ForgedToken, LegacyCookie("u1")}

\* crypto.createHash('sha256').update(raw).digest('hex'): one-way and
\* collision-free
Sha256(raw) == [sha256 |-> raw]

\* raw.startsWith(`${userId}:`); hex text holds no ':'
StartsWithUserId(raw, userId) == raw.kind = "legacy" /\ raw.uid = userId

\* Outcome of one storage call.  A fault is a transient failure of the call:
\* "error" is an error object returned by the client library (its message does
\* not say "does not exist"), "throw" an exception.  Without a fault the call
\* succeeds when the column / table is provisioned and otherwise returns the
\* "... does not exist" error.
Faults == {"none", "error", "throw"}
\* at most one call of a request is hit by a fault: calls after a failed one
\* that ends the request are never made
FaultPlans(k) ==
    {[at |-> 0, how |-> "none"]} \cup [at : 1..k, how : {"error", "throw"}]
FaultAt(plan, i) == IF plan.at = i THEN plan.how ELSE "none"

DbOutcome(provisioned, fault) ==
    IF fault # "none" THEN fault
    ELSE IF provisioned THEN "ok" ELSE "missing"

\* One-time codes: the code an authenticator shows for a secret at a time step,
\* or text that is no 6-digit code.
\* the time step of the authenticator: 30 seconds, the library default
TotpStep(t) == t \div (30 * 1000)
CodeOf(secret, step) == [secret |-> secret, step |-> step]
Malformed == [secret |-> "(malformed)", step |-> 0]
\* text that is no base32 secret
MalformedSecret == "(not base32)"
StaleSteps == 5
SubmittedCodes ==
    {CodeOf(s, TotpStep(now)) : s \in Secrets}
    \cup {CodeOf(s, TotpStep(now) - StaleSteps) : s \in Secrets}
    \cup {Malformed}

\* Variant: a code of the secret is accepted whatever its time step.
MutCheckAnyStep(token, secret) ==
    IF token = Malformed \/ secret = MalformedSecret THEN "throw"
    ELSE IF token.secret = secret THEN "true"
    ELSE "false"

\* authenticator.check(String(token), String(secret)) inside try/catch:
\* a malformed token makes the library throw, which the routes turn into false
AuthenticatorCheck(token, secret) ==
    IF token = Malformed \/ secret = MalformedSecret THEN "throw"
    ELSE IF token = CodeOf(secret, TotpStep(now)) THEN "true"
    ELSE "false"

\* Variant: only the answer `false` of the library rejects a code.
MutTotpOkUnlessFalse(token, secret) == AuthenticatorCheck(token, secret) # "false"

\* let ok = false; try { ok = authenticator.check(...) } catch { ok = false }
TotpOk(token, secret) == AuthenticatorCheck(token, secret) = "true"

----------------------------------------------------------------------------
(* Requests and responses *)

\* How a request authenticates: the Supabase session cookie it carries and the
\* bearer token of its Authorization header (the user the token belongs to).
AuthOf(b) == {[cookieUser |-> session[b], bearer |-> NoUser]}

\* Variant: a bearer token of any user is accepted, the comparison with the
\* expected user id is lost.
MutVerifyAnyBearer(auth, expectedUserId) ==
    IF auth.cookieUser # NoUser /\ auth.cookieUser = expectedUserId
    THEN [ok |-> TRUE, status |-> 200, reason |-> None]
    ELSE IF auth.bearer = NoUser
    THEN [ok |-> FALSE, status |-> 401, reason |-> "missing authorization"]
    ELSE [ok |-> TRUE, status |-> 200, reason |-> None]

verifyUserFromRequest(auth, expectedUserId) ==
    IF auth.cookieUser # NoUser /\ auth.cookieUser = expectedUserId
    THEN [ok |-> TRUE, status |-> 200, reason |-> None]
    ELSE IF auth.bearer = NoUser
    THEN [ok |-> FALSE, status |-> 401, reason |-> "missing authorization"]
    ELSE IF auth.bearer # expectedUserId
    THEN [ok |-> FALSE, status |-> 403, reason |-> "forbidden"]
    ELSE [ok |-> TRUE, status |-> 200, reason |-> None]

NoSetCookie == [kind |-> "unchanged", uid |-> NoUser, n |-> 0]
NoBody == [none |-> TRUE]

\* A response: status, the members of its JSON body and the trusted_device
\* cookie it sets.
Response(status, error, body, setCookie) ==
    [status |-> status, error |-> error, body |-> body, setCookie |-> setCookie]

isoError(msg) == Response(500, msg, NoBody, NoSetCookie)
StorageErrorText == "storage error text"
MissingText(what) == IF what = "prefs" THEN "column preferences does not exist"
                     ELSE "relation trusted_devices does not exist"
DefaultIsoError == "Internal server error"

\* a failed storage call as the routes see it: the message of the error object
ErrorMessage(outcome, what) ==
    IF outcome = "missing" THEN MissingText(what) ELSE StorageErrorText

\* the secrets a response body contains
SecretsOfBody(r) ==
    (IF "secret" \in DOMAIN r.body THEN {r.body.secret} ELSE {})
    \cup (IF "totp" \in DOMAIN r.body /\ "secret" \in DOMAIN r.body.totp
          THEN {r.body.totp.secret} ELSE {})

\* the cookie jar after a response
CookieAfter(old, r) ==
    IF r.setCookie = NoSetCookie THEN old
    ELSE IF r.setCookie.kind = "expire" THEN NoCookie
    ELSE r.setCookie

----------------------------------------------------------------------------
(* GET /api/dashboard/profile *)

MatchedDevice(userId, raw) ==
    \E d \in devices : d.user_id = userId /\ d.token_hash = Sha256(raw)

\* the trustedDevice flag computed from the presented cookie
TrustedDevice(userId, raw, fLedger) ==
    LET outcome == DbOutcome(schema.ledger, fLedger) IN
    IF raw.kind = "none" THEN FALSE
    ELSE IF outcome = "missing" THEN StartsWithUserId(raw, userId)
    ELSE IF outcome = "error" THEN FALSE
    ELSE IF outcome = "throw" THEN StartsWithUserId(raw, userId)
    ELSE IF MatchedDevice(userId, raw) THEN TRUE
    ELSE StartsWithUserId(raw, userId)

ProfileGET(userId, auth, raw, fProfile, fLedger) ==
    LET verified == verifyUserFromRequest(auth, userId)
        outcome  == DbOutcome(schema.prefs, fProfile)
    IN  IF ~verified.ok THEN Response(verified.status, verified.reason, NoBody, NoSetCookie)
        ELSE IF outcome = "throw" THEN isoError(DefaultIsoError)
        ELSE IF outcome # "ok" THEN isoError(ErrorMessage(outcome, "prefs"))
        ELSE Response(200, None,
                      [totp |-> prefs[userId].totp,
                       trustedDevice |-> TrustedDevice(userId, raw, fLedger)],
                      NoSetCookie)

----------------------------------------------------------------------------
(* The trusted-device token issued after a verified code *)

\* Variant: the row keeps the raw token itself.
MutDeviceRowStoresRaw(userId, n) ==
    [id |-> n, user_id |-> userId, token_hash |-> RawToken(n),
     user_agent |-> "ua", created_at |-> now, last_seen |-> now]

\* the row inserted into trusted_devices for the n-th generated raw token
DeviceRow(userId, n) ==
    [id |-> n, user_id |-> userId, token_hash |-> Sha256(RawToken(n)),
     user_agent |-> "ua", created_at |-> now, last_seen |-> now]

\* cookies.set('trusted_device', '', { maxAge: 0 })
ExpireCookie == [kind |-> "expire", uid |-> NoUser, n |-> 0]

\* Result of a route: the response and the tables after it
Result(resp, newPrefs, newDevices, tokenUsed) ==
    [resp |-> resp, prefs |-> newPrefs, devices |-> newDevices, tokenUsed |-> tokenUsed]

NoChange(resp) == Result(resp, prefs, devices, FALSE)

----------------------------------------------------------------------------
(* POST /api/auth/2fa/verify-login *)

\* Variant: a verified code answers success and sets the cookie without
\* writing the ledger.
MutVerifyLoginNoRecord(userId, token, fProfile, fInsert) ==
    LET totp == prefs[userId].totp
        n    == nextToken + 1
    IN  IF DbOutcome(schema.prefs, fProfile) # "ok" THEN NoChange(isoError(DefaultIsoError))
        ELSE IF totp = NoTotp THEN NoChange(Response(400, "totp not configured", NoBody, NoSetCookie))
        ELSE IF ~TotpOk(token, totp.secret)
        THEN NoChange(Response(400, "invalid token", NoBody, NoSetCookie))
        ELSE Result(Response(200, None, [success |-> TRUE], RawToken(n)), prefs, devices, TRUE)

\* Variant: the token is issued before the code is checked, so a rejected code
\* leaves a record and a cookie behind.
MutVerifyLoginTrustsOnFailure(userId, token, fProfile, fInsert) ==
    LET totp == prefs[userId].totp
        n    == nextToken + 1
        rows == devices \cup {DeviceRow(userId, n)}
    IN  IF DbOutcome(schema.prefs, fProfile) # "ok" THEN NoChange(isoError(DefaultIsoError))
        ELSE IF totp = NoTotp THEN NoChange(Response(400, "totp not configured", NoBody, NoSetCookie))
        ELSE IF ~TotpOk(token, totp.secret)
        THEN Result(Response(400, "invalid token", NoBody, RawToken(n)), prefs, rows, TRUE)
        ELSE Result(Response(200, None, [success |-> TRUE], RawToken(n)), prefs, rows, TRUE)

VerifyLoginPOST(userId, token, fProfile, fInsert) ==
    LET oProfile == DbOutcome(schema.prefs, fProfile)
        totp     == prefs[userId].totp
        n        == nextToken + 1
        oInsert  == DbOutcome(schema.ledger, fInsert)
    IN  IF oProfile = "throw" THEN NoChange(isoError(DefaultIsoError))
        ELSE IF oProfile # "ok" THEN NoChange(isoError(ErrorMessage(oProfile, "prefs")))
        ELSE IF totp = NoTotp THEN NoChange(Response(400, "totp not configured", NoBody, NoSetCookie))
        ELSE IF ~TotpOk(token, totp.secret)
        THEN NoChange(Response(400, "invalid token", NoBody, NoSetCookie))
        ELSE IF oInsert = "ok"
        THEN Result(Response(200, None, [success |-> TRUE], RawToken(n)),
                    prefs, devices \cup {DeviceRow(userId, n)}, TRUE)
        ELSE IF oInsert = "missing"
        THEN Result(Response(200, None,
                             [success |-> TRUE,
                              warning |-> "trusted_devices table missing; cookie set only"],
                             RawToken(n)),
                    prefs, devices, TRUE)
        ELSE IF oInsert = "error"
        THEN Result(Response(200, None, [success |-> TRUE], RawToken(n)), prefs, devices, TRUE)
        ELSE Result(Response(200, None, [success |-> TRUE], NoSetCookie), prefs, devices, TRUE)

----------------------------------------------------------------------------
(* POST /api/dashboard/2fa/setup *)

SetupPOST(userId, auth, secret) ==
    LET verified == verifyUserFromRequest(auth, userId) IN
    IF ~verified.ok THEN NoChange(Response(verified.status, verified.reason, NoBody, NoSetCookie))
    ELSE NoChange(Response(200, None, [secret |-> secret, otpauth |-> secret], NoSetCookie))

----------------------------------------------------------------------------
(* POST /api/dashboard/2fa/verify (enrollment) *)

\* Variant: the configuration is written before the code is checked.
MutEnrollPersistsUnverified(userId, auth, secret, token, fFetch, fUpdate, fInsert) ==
    LET verified == verifyUserFromRequest(auth, userId)
        merged   == [prefs EXCEPT ![userId].totp =
                        [enabled |-> TRUE, secret |-> secret, createdAt |-> now]]
    IN  IF ~verified.ok THEN NoChange(Response(verified.status, verified.reason, NoBody, NoSetCookie))
        ELSE IF ~TotpOk(token, secret)
        THEN Result(Response(400, "invalid token", NoBody, NoSetCookie), merged, devices, FALSE)
        ELSE Result(Response(200, None, [success |-> TRUE], NoSetCookie), merged, devices, FALSE)

\* Variant: a verified code answers success and issues the token without
\* writing the configuration.
MutEnrollNotPersisted(userId, auth, secret, token, fFetch, fUpdate, fInsert) ==
    LET verified == verifyUserFromRequest(auth, userId)
        n        == nextToken + 1
    IN  IF ~verified.ok THEN NoChange(Response(verified.status, verified.reason, NoBody, NoSetCookie))
        ELSE IF ~TotpOk(token, secret)
        THEN NoChange(Response(400, "invalid token", NoBody, NoSetCookie))
        ELSE Result(Response(200, None, [success |-> TRUE], RawToken(n)),
                    prefs, devices \cup {DeviceRow(userId, n)}, TRUE)

EnrollVerifyPOST(userId, auth, secret, token, fFetch, fUpdate, fInsert) ==
    LET verified == verifyUserFromRequest(auth, userId)
        oFetch   == DbOutcome(schema.prefs, fFetch)
        oUpdate  == DbOutcome(schema.prefs, fUpdate)
        oInsert  == DbOutcome(schema.ledger, fInsert)
        totp     == [enabled |-> TRUE, secret |-> secret, createdAt |-> now]
        merged   == [prefs EXCEPT ![userId].totp = totp]
        n        == nextToken + 1
        okBody   == [success |-> TRUE, totp |-> [enabled |-> TRUE, createdAt |-> now]]
        warnBody == [success |-> TRUE,
                     warning |-> "preferences column missing; totp not persisted"]
    IN  IF ~verified.ok THEN NoChange(Response(verified.status, verified.reason, NoBody, NoSetCookie))
        ELSE IF ~TotpOk(token, secret)
        THEN NoChange(Response(400, "invalid token", NoBody, NoSetCookie))
        ELSE IF oFetch = "throw" THEN NoChange(isoError(DefaultIsoError))
        ELSE IF oFetch = "missing" THEN NoChange(Response(200, None, warnBody, NoSetCookie))
        ELSE IF oFetch = "error" THEN NoChange(isoError(ErrorMessage(oFetch, "prefs")))
        ELSE IF oUpdate = "throw" THEN NoChange(isoError(DefaultIsoError))
        ELSE IF oUpdate = "missing" THEN NoChange(Response(200, None, warnBody, NoSetCookie))
        ELSE IF oUpdate = "error" THEN NoChange(isoError(ErrorMessage(oUpdate, "prefs")))
        ELSE IF oInsert = "ok"
        THEN Result(Response(200, None, okBody, RawToken(n)),
                    merged, devices \cup {DeviceRow(userId, n)}, TRUE)
        ELSE Result(Response(200, None, okBody, RawToken(n)), merged, devices, TRUE)

----------------------------------------------------------------------------
(* POST /api/dashboard/2fa/disable *)

DisablePOST(userId, auth, fFetch, fUpdate, fDelete) ==
    LET verified == verifyUserFromRequest(auth, userId)
        oFetch   == DbOutcome(schema.prefs, fFetch)
        oUpdate  == DbOutcome(schema.prefs, fUpdate)
        oDelete  == DbOutcome(schema.ledger, fDelete)
        hasTotp  == prefs[userId].totp # NoTotp
        merged   == [prefs EXCEPT ![userId].totp = NoTotp]
        cleared  == IF hasTotp THEN merged ELSE prefs
        kept     == IF oDelete = "ok" THEN {d \in devices : d.user_id # userId} ELSE devices
    IN  IF ~verified.ok THEN NoChange(Response(verified.status, verified.reason, NoBody, NoSetCookie))
        ELSE IF oFetch = "throw" THEN NoChange(isoError(DefaultIsoError))
        ELSE IF oFetch = "missing"
        THEN NoChange(Response(200, None,
                               [success |-> TRUE,
                                warning |-> "preferences column missing; nothing to update"],
                               NoSetCookie))
        ELSE IF oFetch = "error" THEN NoChange(isoError(ErrorMessage(oFetch, "prefs")))
        ELSE IF hasTotp /\ oUpdate = "throw" THEN NoChange(isoError(DefaultIsoError))
        ELSE IF hasTotp /\ oUpdate = "missing"
        THEN NoChange(Response(200, None,
                               [success |-> TRUE,
                                warning |-> "preferences column missing; not persisted"],
                               NoSetCookie))
        ELSE IF hasTotp /\ oUpdate = "error" THEN NoChange(isoError(ErrorMessage(oUpdate, "prefs")))
        ELSE Result(Response(200, None, [success |-> TRUE], ExpireCookie), cleared, kept, FALSE)

----------------------------------------------------------------------------
(* GET and POST /api/dashboard/settings *)

SettingsGET(userId, auth, fSelect) ==
    LET verified == verifyUserFromRequest(auth, userId)
        outcome  == DbOutcome(schema.prefs, fSelect)
    IN  IF ~verified.ok THEN Response(verified.status, verified.reason, NoBody, NoSetCookie)
        ELSE IF outcome = "throw" THEN isoError(DefaultIsoError)
        ELSE IF outcome = "missing" THEN Response(200, None, NoPrefs, NoSetCookie)
        ELSE IF outcome = "error" THEN isoError(ErrorMessage(outcome, "prefs"))
        ELSE Response(200, None, prefs[userId], NoSetCookie)

\* the preferences object the settings page posts: it has no totp member
PostedPreferences == {[totp |-> NoTotp, theme |-> t] : t \in Themes}

SettingsPOST(userId, auth, preferences, fUpdate) ==
    LET verified == verifyUserFromRequest(auth, userId)
        outcome  == DbOutcome(schema.prefs, fUpdate)
    IN  IF ~verified.ok THEN NoChange(Response(verified.status, verified.reason, NoBody, NoSetCookie))
        ELSE IF outcome = "throw" THEN NoChange(isoError(DefaultIsoError))
        ELSE IF outcome = "missing" THEN NoChange(Response(200, None, preferences, NoSetCookie))
        ELSE IF outcome = "error" THEN NoChange(isoError(ErrorMessage(outcome, "prefs")))
        ELSE Result(Response(200, None, preferences, NoSetCookie),
                    [prefs EXCEPT ![userId] = preferences], devices, FALSE)

----------------------------------------------------------------------------
(* Actions: the login flow of components/auth/login-form.tsx *)

LoginStates == {"PasswordPending", "PasswordVerified", "SecondFactorRequired", "Complete"}

DeniedAfter(r, email) ==
    IF email # NoKey /\ r.resp.status = 429
    THEN [lastDenied EXCEPT ![email] =
            [window |-> CurrentWindow(r.email, email),
             retryAfter |-> r.resp.retryAfter,
             error |-> r.resp.error]]
    ELSE lastDenied

\* login(email, password) of lib/utils/auth-helpers: the Credential Store
\* returns the user and a session, or throws an AuthError
login(email, passwordOk) ==
    IF passwordOk THEN [ok |-> TRUE, user |-> UserOfEmail(email)]
    ELSE [ok |-> FALSE, user |-> NoUser]

\* a pre-check that stops the attempt only on a 429
MutAdmitsUnlessTooMany(answer) == answer.status # 429

\* The throttle pre-check lets the attempt go on: fetch resolved and rr.ok
Admits(answer) == answer.status = 200

\* What onSubmit gets from fetch('/api/auth/login-attempt'): the handler's
\* answer, its 500 when it throws before counting, or a rejected fetch
ThrottleAnswer(r, fThrottle) ==
    IF fThrottle = "none" THEN [status |-> r.resp.status, error |-> r.resp.error]
    ELSE IF fThrottle = "error" THEN [status |-> 500, error |-> "Internal error"]
    ELSE [status |-> 0, error |-> "fetch failed"]

\* onSubmit up to the credential check: throttle pre-check, then login()
LoginSubmit(b, raw, xff, passwordOk, fThrottle) ==
    /\ pc[b] = "PasswordPending"
    /\ calls < MaxLogins
    /\ LET r      == ThrottlePOST(raw, xff)
           email  == NormaliseEmail(raw)
           answer == ThrottleAnswer(r, fThrottle)
           admitted == Admits(answer)
           res    == login(email, passwordOk)
           counted == fThrottle = "none"
       IN  /\ ipAttempts' = IF counted THEN r.ip ELSE ipAttempts
           /\ emailAttempts' = IF counted THEN r.email ELSE emailAttempts
           /\ lastDenied' = IF counted THEN DeniedAfter(r, email) ELSE lastDenied
           /\ session' = IF admitted /\ res.ok THEN [session EXCEPT ![b] = res.user] ELSE session
           /\ pc' = IF admitted /\ res.ok THEN [pc EXCEPT ![b] = "PasswordVerified"] ELSE pc
           /\ last' = [op |-> "login", throttle |-> answer.status,
                       passwordOk |-> passwordOk, storeCalled |-> admitted,
                       resp |-> IF ~admitted
                                THEN Response(answer.status, answer.error, NoBody, NoSetCookie)
                                ELSE IF res.ok THEN Response(200, None, NoBody, NoSetCookie)
                                ELSE Response(400, "Invalid email or password", NoBody, NoSetCookie)]
    /\ calls' = calls + 1
    /\ UNCHANGED <<now, ticks, inflight, schema, prefs, devices, cookie, nextToken, failedCodes>>

\* a form that sends the user to the challenge when the lookup fails
MutRouteFailsClosed(resp, fetchThrows) ==
    IF fetchThrows THEN "SecondFactorRequired"
    ELSE IF resp.status # 200 THEN "SecondFactorRequired"
    ELSE IF resp.body.totp # NoTotp /\ ~resp.body.trustedDevice THEN "SecondFactorRequired"
    ELSE "Complete"

\* where onSubmit routes after the profile lookup: to the challenge when the
\* answer is OK, holds a totp member and does not report a trusted device
RouteAfterProfile(resp, fetchThrows) ==
    IF fetchThrows THEN "Complete"
    ELSE IF resp.status # 200 THEN "Complete"
    ELSE IF resp.body.totp # NoTotp /\ ~resp.body.trustedDevice THEN "SecondFactorRequired"
    ELSE "Complete"

\* onSubmit after the credential check: profile lookup with the bearer token
\* of the new session, then the redirect
LoginRoute(b, fProfile, fLedger, fetchThrows) ==
    /\ pc[b] = "PasswordVerified"
    /\ LET userId == session[b]
           resp   == ProfileGET(userId, [cookieUser |-> session[b], bearer |-> session[b]],
                                cookie[b], fProfile, fLedger)
           next   == RouteAfterProfile(resp, fetchThrows)
       IN  /\ pc' = [pc EXCEPT ![b] = next]
           /\ failedCodes' = [failedCodes EXCEPT ![b] = 0]
           /\ last' = [op |-> "login-route", resp |-> IF fetchThrows THEN Response(0, "fetch failed", NoBody, NoSetCookie)
                                ELSE resp]
    /\ UNCHANGED <<throttleVars, schema, prefs, devices, session, cookie, nextToken>>

\* Verify2faClient.onSubmit: the code typed on /auth/2fa/verify?userId=...
VerifyLoginSubmit(b, token, fProfile, fInsert) ==
    /\ pc[b] = "SecondFactorRequired"
    /\ LET userId == session[b]
           r      == VerifyLoginPOST(userId, token, fProfile, fInsert)
           ok     == r.resp.status = 200
       IN  /\ last' = [op |-> "verify-login", resp |-> r.resp,
                       malformed |-> token = Malformed]
           /\ r.tokenUsed => nextToken < MaxTokens
           /\ ~ok => failedCodes[b] < MaxFailed
           /\ prefs' = r.prefs
           /\ devices' = r.devices
           /\ nextToken' = IF r.tokenUsed THEN nextToken + 1 ELSE nextToken
           /\ cookie' = [cookie EXCEPT ![b] = CookieAfter(@, r.resp)]
           /\ pc' = IF ok THEN [pc EXCEPT ![b] = "Complete"] ELSE pc
           /\ failedCodes' = IF ok THEN failedCodes ELSE [failedCodes EXCEPT ![b] = @ + 1]
    /\ UNCHANGED <<throttleVars, schema, session>>

\* handleSignOut of the dashboard layout
Logout(b) ==
    /\ pc[b] \in {"SecondFactorRequired", "Complete"}
    /\ session' = [session EXCEPT ![b] = NoUser]
    /\ pc' = [pc EXCEPT ![b] = "PasswordPending"]
    /\ last' = [op |-> "logout", resp |-> Response(200, None, NoBody, NoSetCookie)]
    /\ UNCHANGED <<throttleVars, schema, prefs, devices, cookie, nextToken, failedCodes>>

\* The user agent replaces its trusted_device cookie: the value is whatever
\* the client sends.
SetCookie(b, value) ==
    /\ cookie[b] # value
    /\ cookie' = [cookie EXCEPT ![b] = value]
    /\ last' = [op |-> "set-cookie", resp |-> Response(0, None, NoBody, NoSetCookie)]
    /\ UNCHANGED <<throttleVars, schema, prefs, devices, session, pc, nextToken, failedCodes>>

----------------------------------------------------------------------------
(* Actions: requests of a browser to the dashboard routes *)

ProfileRequest(b, userId, auth, fProfile, fLedger) ==
    /\ session[b] # NoUser
    /\ last' = [op |-> "profile", resp |-> ProfileGET(userId, auth, cookie[b], fProfile, fLedger)]
    /\ UNCHANGED <<throttleVars, appVars>>

SettingsGetRequest(b, userId, auth, fSelect) ==
    /\ session[b] # NoUser
    /\ last' = [op |-> "settings-get", resp |-> SettingsGET(userId, auth, fSelect)]
    /\ UNCHANGED <<throttleVars, appVars>>

SettingsPostRequest(b, userId, auth, preferences, fUpdate) ==
    /\ session[b] # NoUser
    /\ LET r == SettingsPOST(userId, auth, preferences, fUpdate)
       IN  /\ last' = [op |-> "settings-post", resp |-> r.resp]
           /\ prefs' = r.prefs
    /\ UNCHANGED <<throttleVars, schema, devices, session, cookie, pc, nextToken, failedCodes>>

SetupRequest(b, userId, auth, secret) ==
    /\ session[b] # NoUser
    /\ LET r == SetupPOST(userId, auth, secret)
       IN  /\ last' = [op |-> "setup", resp |-> r.resp]
           /\ prefs' = r.prefs
           /\ devices' = r.devices
           /\ cookie' = [cookie EXCEPT ![b] = CookieAfter(@, r.resp)]
    /\ UNCHANGED <<throttleVars, schema, session, pc, nextToken, failedCodes>>

EnrollVerifyRequest(b, userId, auth, secret, token, fFetch, fUpdate, fInsert) ==
    /\ session[b] # NoUser
    /\ LET r == EnrollVerifyPOST(userId, auth, secret, token, fFetch, fUpdate, fInsert)
       IN  /\ last' = [op |-> "enroll-verify", resp |-> r.resp,
                       malformed |-> token = Malformed \/ secret = MalformedSecret]
           /\ r.tokenUsed => nextToken < MaxTokens
           /\ prefs' = r.prefs
           /\ devices' = r.devices
           /\ nextToken' = IF r.tokenUsed THEN nextToken + 1 ELSE nextToken
           /\ cookie' = [cookie EXCEPT ![b] = CookieAfter(@, r.resp)]
    /\ UNCHANGED <<throttleVars, schema, session, pc, failedCodes>>

DisableRequest(b, userId, auth, fFetch, fUpdate, fDelete) ==
    /\ session[b] # NoUser
    /\ LET r == DisablePOST(userId, auth, fFetch, fUpdate, fDelete)
       IN  /\ last' = [op |-> "disable", resp |-> r.resp]
           /\ prefs' = r.prefs
           /\ devices' = r.devices
           /\ cookie' = [cookie EXCEPT ![b] = CookieAfter(@, r.resp)]
    /\ UNCHANGED <<throttleVars, schema, session, pc, nextToken, failedCodes>>

----------------------------------------------------------------------------
(* Specifications *)

NoRequest == [op |-> "none"]
NoDenial == [window |-> -2, retryAfter |-> 0, error |-> None]

\* A fresh deployment: nobody is logged in, no user has enrolled (every user has
\* saved the settings page once), the ledger is empty.  The two migrations (preferences column, trusted_devices table) may
\* or may not have been run.
AppInit ==
    /\ schema \in [prefs : BOOLEAN, ledger : BOOLEAN]
    /\ prefs = [u \in Users |-> SavedPrefs]
    /\ devices = {}
    /\ session = [b \in Browsers |-> NoUser]
    /\ cookie = [b \in Browsers |-> NoCookie]
    /\ pc = [b \in Browsers |-> "PasswordPending"]
    /\ nextToken = 0
    /\ failedCodes = [b \in Browsers |-> 0]

\* The process has just started (empty maps), or origin 10.0.0.1 has already
\* made IP_MAX calls without an e-mail in the window that started at 0.
ThrottleInit ==
    /\ now = 0
    /\ emailAttempts = [k \in EmailKeys |-> NoEntry]
    /\ ipAttempts \in {[k \in IpKeys |-> NoEntry],
                       [k \in IpKeys |-> IF k = "10.0.0.1"
                                         THEN [count |-> IP_MAX, windowStart |-> 0]
                                         ELSE NoEntry]}
    /\ calls = 0
    /\ ticks = 0
    /\ lastDenied = [k \in EmailKeys |-> NoDenial]
    /\ inflight = NoneInFlight
    /\ last = NoRequest
    /\ AppInit
    /\ schema = [prefs |-> TRUE, ledger |-> TRUE]

ThrottleNext ==
    \/ \E raw \in RawEmailsOf({"a@x.io"}), xff \in ForwardedFor : LoginAttempt(raw, xff)
    \/ \E d \in TickSteps : Tick(d)

SpecThrottle == ThrottleInit /\ [][ThrottleNext]_vars

Init ==
    /\ now = 0
    /\ emailAttempts = [k \in EmailKeys |-> NoEntry]
    /\ ipAttempts = [k \in IpKeys |-> NoEntry]
    /\ calls = 0
    /\ ticks = 0
    /\ lastDenied = [k \in EmailKeys |-> NoDenial]
    /\ inflight = NoneInFlight
    /\ last = NoRequest
    /\ AppInit

\* The account that signs in at the browser is u1; u2 is the other account,
\* the one whose data the requests of u1 must not reach.
LoginEmails == [key : {EmailOf["u1"]}, form : {"plain"}]

\* A fault is drawn only for a request that gets as far as the storage: one
\* that is authorised and, where a code is checked first, carries a valid code.
ReachesStorage(b, u) == u = session[b]

Next ==
    \/ \E b \in Browsers, raw \in LoginEmails, passwordOk \in BOOLEAN :
          LoginSubmit(b, raw, "", passwordOk, "none")
    \/ \E b \in Browsers, plan \in FaultPlans(2), fetchThrows \in BOOLEAN :
          /\ fetchThrows => plan.at = 0
          /\ LoginRoute(b, FaultAt(plan, 1), FaultAt(plan, 2), fetchThrows)
    \/ \E b \in Browsers, token \in SubmittedCodes, plan \in FaultPlans(2) :
          VerifyLoginSubmit(b, token, FaultAt(plan, 1), FaultAt(plan, 2))
    \/ \E b \in Browsers : Logout(b)
    \/ \E b \in Browsers, value \in ClientCookies : SetCookie(b, value)
    \/ \E b \in Browsers : \E u \in Users, auth \in AuthOf(b), plan \in FaultPlans(2) :
          /\ ReachesStorage(b, u) \/ plan.at = 0
          /\ ProfileRequest(b, u, auth, FaultAt(plan, 1), FaultAt(plan, 2))
    \/ \E b \in Browsers : \E u \in Users, auth \in AuthOf(b), plan \in FaultPlans(1) :
          /\ ReachesStorage(b, u) \/ plan.at = 0
          /\ SettingsGetRequest(b, u, auth, FaultAt(plan, 1))
    \/ \E b \in Browsers : \E u \in Users, auth \in AuthOf(b), p \in PostedPreferences,
                             plan \in FaultPlans(1) :
          /\ ReachesStorage(b, u) \/ plan.at = 0
          /\ SettingsPostRequest(b, u, auth, p, FaultAt(plan, 1))
    \/ \E b \in Browsers : \E u \in Users, auth \in AuthOf(b), secret \in Secrets :
          SetupRequest(b, u, auth, secret)
    \/ \E b \in Browsers : \E u \in Users, auth \in AuthOf(b), secret \in Secrets,
                             token \in SubmittedCodes, plan \in FaultPlans(3) :
          /\ (ReachesStorage(b, u) /\ TotpOk(token, secret)) \/ plan.at = 0
          /\ EnrollVerifyRequest(b, u, auth, secret, token,
                                 FaultAt(plan, 1), FaultAt(plan, 2), FaultAt(plan, 3))
    \/ \E b \in Browsers : \E u \in Users, auth \in AuthOf(b), plan \in FaultPlans(3) :
          /\ ReachesStorage(b, u) \/ plan.at = 0
          /\ DisableRequest(b, u, auth, FaultAt(plan, 1), FaultAt(plan, 2), FaultAt(plan, 3))

Spec == Init /\ [][Next]_vars

----------------------------------------------------------------------------
(* Claims about the login throttle *)

AccountDenial == "Too many login attempts for this account"

\* a login-attempt request carrying account key e is handled in this step
AttemptStep(e) == calls' = calls + 1 /\ last'.email = e

\* 5 calls with key e have been counted in the window that is open now
WindowFull(e) ==
    /\ emailAttempts[e] # NoEntry
    /\ now - emailAttempts[e].windowStart < EMAIL_WINDOW_MS
    /\ emailAttempts[e].count >= EMAIL_MAX

\* C1 as stated: once 5 calls with an account key are counted in the open
\* window every further call with that key is answered 429, and a later denial
\* (whichever counter issued it) never carries a larger retryAfter than an
\* earlier denial of the same window.
C1_AsStated ==
    [][\A e \in EmailKeys :
         (AttemptStep(e) /\ WindowFull(e)) =>
            /\ last'.status = 429
            /\ lastDenied[e].window = lastDenied'[e].window
                 => last'.retryAfter <= lastDenied[e].retryAfter]_vars

\* C1 (amended): once 5 calls with an account key are counted in the open
\* window every further call with that key is answered 429, and among the
\* denials issued by the account counter in that window a later one never
\* carries a larger retryAfter than an earlier one.
C1_AccountDenialMonotone ==
    [][\A e \in EmailKeys :
         (AttemptStep(e) /\ WindowFull(e)) =>
            /\ last'.status = 429
            /\ (/\ lastDenied[e].window = lastDenied'[e].window
                /\ lastDenied[e].error = AccountDenial
                /\ last'.error = AccountDenial)
                 => last'.retryAfter <= lastDenied[e].retryAfter]_vars

\* the 7th call of a window, made 450.5 s after its start, is denied by the
\* account counter with the rest of the window rounded up to seconds
C1_Witness ==
    /\ last.op = "login-attempt"
    /\ last.email = "a@x.io"
    /\ last.status = 429
    /\ last.error = AccountDenial
    /\ emailAttempts["a@x.io"].count = EMAIL_MAX + 2
    /\ last.retryAfter = 450

----------------------------------------------------------------------------
(* Claims about the second factor and the trusted-device ledger *)

\* the user has a Second-Factor Configuration with enabled = true
Enabled(u) == prefs[u].totp # NoTotp /\ prefs[u].totp.enabled

OwnedDevices(u) == {d \in devices : d.user_id = u}

\* responses of the routes that answer an enrolled user
AfterEnrollmentOps ==
    {"profile", "login-route", "settings-get", "settings-post",
     "enroll-verify", "verify-login", "disable"}

\* C2: no response after the setup response contains the stored totp.secret
\* of the user it answers (profile GET, settings GET/POST, 2FA verify,
\* verify-login, disable).
C2_SecretNeverReturned ==
    \A b \in Browsers :
        (/\ last.op \in AfterEnrollmentOps
         /\ session[b] # NoUser
         /\ prefs[session[b]].totp # NoTotp)
        => prefs[session[b]].totp.secret \notin SecretsOfBody(last.resp)

\* the last response has issued a trust token to browser b: the ledger holds
\* the record and the response returns raw token T in the trusted_device cookie
Issued(b) ==
    /\ last.op \in {"verify-login", "enroll-verify"}
    /\ last.resp.setCookie.kind = "hex"
    /\ MatchedDevice(session[b], last.resp.setCookie)

\* C3: round trip of the ledger.  After a trust token T is issued for user U,
\* the trust check reports T trusted for U, not trusted for any other user, and
\* not trusted for any other value whose hash U has no record of.
C3_RoundTrip ==
    \A b \in Browsers :
        Issued(b) =>
            LET T == last.resp.setCookie
                U == session[b]
            IN  /\ TrustedDevice(U, T, "none")
                /\ \A other \in Users \ {U} : ~TrustedDevice(other, T, "none")
                /\ \A v \in (ClientCookies \ {NoCookie}) \cup {RawToken(n) : n \in 1..nextToken} :
                      (v # T /\ ~MatchedDevice(U, v)) => ~TrustedDevice(U, v, "none")

\* C4: the trust check fails closed.  A profile answer reports trustedDevice
\* only when the ledger holds a record with user_id = userId and
\* token_hash = sha256(cookie value).
C4_FailsClosed ==
    \A b \in Browsers :
        (/\ last.op \in {"profile", "login-route"}
         /\ last.resp.status = 200
         /\ last.resp.body.trustedDevice)
        => (schema.ledger /\ MatchedDevice(session[b], cookie[b]))

\* C5: after a password login, when the profile lookup succeeds, the flow
\* enters the challenge if and only if the user's configuration is enabled and
\* the presented cookie does not resolve to a trusted record of that user.
C5_ChallengeIff ==
    [][last'.op = "login-route" =>
       \A b \in Browsers :
         LoginRoute(b, "none", "none", FALSE) =>
            (pc'[b] = "SecondFactorRequired"
               <=> (Enabled(session[b]) /\ ~MatchedDevice(session[b], cookie[b])))]_vars

\* C6: a disable request that returns success leaves the user with no
\* trusted-device record and no enabled configuration, whatever the storage
\* calls did.
C6_DisableClearsAll ==
    \A b \in Browsers :
        (last.op = "disable" /\ last.resp.status = 200)
        => (~Enabled(session[b]) /\ OwnedDevices(session[b]) = {})

\* the challenge step checks `token` against the stored secret and accepts it
CodeVerifies(b, token, plan) ==
    /\ DbOutcome(schema.prefs, FaultAt(plan, 1)) = "ok"
    /\ prefs[session[b]].totp # NoTotp
    /\ TotpOk(token, prefs[session[b]].totp.secret)

\* C7 as stated: in the login-time challenge a code that verifies against the
\* stored secret creates a trusted-device record for the user with the hash of
\* a fresh raw token, sets the cookie to that token and returns success, so the
\* flow reaches Complete.
C7_AsStated ==
    [][last'.op = "verify-login" =>
       \A b \in Browsers, token \in SubmittedCodes, plan \in FaultPlans(2) :
         (/\ CodeVerifies(b, token, plan)
          /\ VerifyLoginSubmit(b, token, FaultAt(plan, 1), FaultAt(plan, 2)))
         => /\ last'.resp.status = 200
            /\ pc'[b] = "Complete"
            /\ cookie'[b] = RawToken(nextToken')
            /\ devices' = devices \cup {DeviceRow(session[b], nextToken')}]_vars

\* C7 (amended): such a code returns success and the flow reaches Complete; the
\* record is created when the ledger insert succeeds, and the cookie is set to
\* the fresh raw token when the insert returns, with or without an error (an
\* insert that returns an error sets the cookie only).
C7_VerifiedCodeCompletes ==
    [][last'.op = "verify-login" =>
       \A b \in Browsers, token \in SubmittedCodes, plan \in FaultPlans(2) :
         (/\ CodeVerifies(b, token, plan)
          /\ VerifyLoginSubmit(b, token, FaultAt(plan, 1), FaultAt(plan, 2)))
         => LET oInsert == DbOutcome(schema.ledger, FaultAt(plan, 2)) IN
            /\ last'.resp.status = 200
            /\ pc'[b] = "Complete"
            /\ nextToken' = nextToken + 1
            /\ oInsert = "ok" =>
                 /\ devices' = devices \cup {DeviceRow(session[b], nextToken')}
                 /\ DeviceRow(session[b], nextToken') \notin devices
            /\ oInsert # "ok" => devices' = devices
            /\ oInsert # "throw" => cookie'[b] = RawToken(nextToken')]_vars

\* a valid code has just been accepted: the flow is Complete, the browser holds
\* the fresh token and the ledger the record with its hash
C7_Witness ==
    \E b \in Browsers :
        /\ last.op = "verify-login"
        /\ last.resp.status = 200
        /\ pc[b] = "Complete"
        /\ cookie[b] = RawToken(nextToken)
        /\ \E d \in devices : d.user_id = session[b] /\ d.token_hash = Sha256(cookie[b])

\* C8: a failed code in the login-time challenge leaves the flow in
\* SecondFactorRequired, creates no record, sets no cookie and changes no
\* configuration; and however many codes have failed, a valid code is accepted.
C8_FailedCodeNoEffect ==
    [][last'.op = "verify-login" =>
       \A b \in Browsers, token \in SubmittedCodes, plan \in FaultPlans(2) :
         VerifyLoginSubmit(b, token, FaultAt(plan, 1), FaultAt(plan, 2)) =>
            /\ last'.resp.status # 200 =>
                 /\ pc'[b] = "SecondFactorRequired"
                 /\ devices' = devices
                 /\ cookie' = cookie
                 /\ prefs' = prefs
                 /\ nextToken' = nextToken
            /\ CodeVerifies(b, token, plan) =>
                 (last'.resp.status = 200 /\ pc'[b] = "Complete")]_vars

\* a valid code accepted after a rejected one
C8_Witness ==
    \E b \in Browsers :
        /\ failedCodes[b] >= 1
        /\ last.op = "verify-login"
        /\ last.resp.status = 200
        /\ pc[b] = "Complete"

\* the step left the stored configuration, the ledger and the cookie alone
NothingPersisted == prefs' = prefs /\ devices' = devices /\ cookie' = cookie

\* C9: enrollment persists nothing until a code is verified.  The setup request
\* changes neither the stored configuration nor the ledger, and an enrollment
\* verify whose code does not match the submitted secret changes neither and
\* sets no cookie, whatever the storage would have answered: a setup step, or
\* an enrollment verify carrying a mismatching code, is a step that persisted
\* nothing.
C9_NothingPersistedUnverified ==
    [][/\ last'.op = "setup" =>
            \/ NothingPersisted
            \/ \A b \in Browsers, u \in Users, secret \in Secrets :
                  ~ \E auth \in AuthOf(b) : SetupRequest(b, u, auth, secret)
       /\ last'.op = "enroll-verify" =>
            \/ NothingPersisted
            \/ \A b \in Browsers, u \in Users, secret \in Secrets,
                  token \in SubmittedCodes, plan \in FaultPlans(3) :
                  ~ /\ ~TotpOk(token, secret)
                    /\ \E auth \in AuthOf(b) :
                          EnrollVerifyRequest(b, u, auth, secret, token,
                                              FaultAt(plan, 1), FaultAt(plan, 2), FaultAt(plan, 3))]_vars

\* an enrollment verify has just been refused for a wrong code and the user
\* still has no configuration and no device
C9_Witness ==
    \E b \in Browsers :
        /\ last.op = "enroll-verify"
        /\ last.resp.status = 400
        /\ last.resp.error = "invalid token"
        /\ session[b] # NoUser
        /\ prefs[session[b]].totp = NoTotp
        /\ OwnedDevices(session[b]) = {}

\* the next login of user u from browser b, with every lookup working, is
\* routed to the dashboard
NextLoginNotChallenged(b, u) ==
    RouteAfterProfile(ProfileGET(u, [cookieUser |-> u, bearer |-> u], cookie[b], "none", "none"),
                      FALSE) = "Complete"

\* C10 as stated: an enrollment verify that returns success leaves the
\* configuration persisted with enabled = true and the submitted secret, and
\* issues a trust token (ledger record plus cookie), so that the next login
\* from the same browser is not challenged.
C10_AsStated ==
    [][(last'.op = "enroll-verify" /\ last'.resp.status = 200) =>
       \A b \in Browsers, u \in Users, secret \in Secrets, token \in SubmittedCodes,
          plan \in FaultPlans(3) :
         (/\ \E auth \in AuthOf(b) :
                EnrollVerifyRequest(b, u, auth, secret, token,
                                    FaultAt(plan, 1), FaultAt(plan, 2), FaultAt(plan, 3)))
         => /\ prefs'[u].totp # NoTotp
            /\ prefs'[u].totp.enabled
            /\ prefs'[u].totp.secret = secret
            /\ cookie'[b] = RawToken(nextToken')
            /\ DeviceRow(u, nextToken') \in devices'
            /\ NextLoginNotChallenged(b, u)']_vars

\* C10 (amended): an enrollment verify that returns success without a warning
\* leaves the configuration persisted with enabled = true and the submitted
\* secret and sets the cookie to a fresh raw token; when the ledger insert
\* succeeds it also creates the record, so that the next login from the same
\* browser is not challenged.  (With the preferences column missing it returns
\* success with a warning and persists nothing.)
C10_EnrollPersistsAndTrusts ==
    [][(last'.op = "enroll-verify" /\ last'.resp.status = 200) =>
       \A b \in Browsers, u \in Users, secret \in Secrets, token \in SubmittedCodes,
          plan \in FaultPlans(3) :
         (/\ \E auth \in AuthOf(b) :
                EnrollVerifyRequest(b, u, auth, secret, token,
                                    FaultAt(plan, 1), FaultAt(plan, 2), FaultAt(plan, 3)))
         => IF "warning" \in DOMAIN last'.resp.body
            THEN prefs' = prefs /\ devices' = devices /\ cookie' = cookie
            ELSE /\ prefs'[u].totp # NoTotp
                 /\ prefs'[u].totp.enabled
                 /\ prefs'[u].totp.secret = secret
                 /\ cookie'[b] = RawToken(nextToken')
                 /\ DbOutcome(schema.ledger, FaultAt(plan, 3)) = "ok" =>
                      /\ DeviceRow(u, nextToken') \in devices'
                      /\ NextLoginNotChallenged(b, u)']_vars

\* enrollment has just succeeded: configuration stored, record and cookie issued
C10_Witness ==
    \E b \in Browsers :
        /\ last.op = "enroll-verify"
        /\ last.resp.status = 200
        /\ session[b] # NoUser
        /\ Enabled(session[b])
        /\ cookie[b] = RawToken(nextToken)
        /\ MatchedDevice(session[b], cookie[b])
        /\ NextLoginNotChallenged(b, session[b])

\* the operations that may write a user's Second-Factor Configuration
ConfigurationWriters == {"enroll-verify", "disable"}

\* C11: a user's Second-Factor Configuration is changed only by the enrollment
\* verify and the disable operations: a step of any other operation, saving the
\* settings included, leaves enabled and secret of every user unchanged.
C11_OnlyOrchestratorWritesTotp ==
    [][last'.op \notin ConfigurationWriters =>
         \A u \in Users : prefs'[u].totp = prefs[u].totp]_vars

\* the raw tokens generated so far and their hashes
GeneratedTokens == {RawToken(n) : n \in 1..nextToken}
GeneratedHashes == {Sha256(t) : t \in GeneratedTokens}

\* what a trusted_devices record may hold: no field ranges over raw tokens
HashedRecords ==
    [id : 1..nextToken, user_id : Users, token_hash : GeneratedHashes,
     user_agent : {"ua"}, created_at : Nat, last_seen : Nat]

\* C12: in every reachable state each trusted-device record stores the SHA-256
\* hash of its raw token and no field of it is the raw token; a raw token leaves
\* the server only as the trusted_device cookie of the response that issued it.
C12_OnlyHashStored ==
    /\ devices \subseteq HashedRecords
    /\ \A d \in devices : d.token_hash = Sha256(RawToken(d.id))
    /\ (last.op # "none" /\ last.op # "login-attempt") =>
         /\ last.resp.setCookie.kind = "hex" =>
              /\ last.op \in {"verify-login", "enroll-verify"}
              /\ last.resp.setCookie = RawToken(nextToken)
         /\ DOMAIN last.resp.body \cap {"rawToken", "token", "trusted_device"} = {}

\* a token has just been issued: its hash is in the ledger, the token itself in
\* the cookie of the response
C12_Witness ==
    /\ last.op \in {"verify-login", "enroll-verify"}
    /\ last.resp.setCookie = RawToken(nextToken)
    /\ \E d \in devices : d.token_hash = Sha256(last.resp.setCookie)

----------------------------------------------------------------------------
(* POST /api/dashboard/trusted-devices/refresh (touch) *)

\* Variant: the update has lost its filter on token_hash.
MutRefreshTouchesAll(raw, fUpdate) ==
    IF raw.kind = "none"
    THEN NoChange(Response(200, None, [updated |-> FALSE, reason |-> "no cookie"], NoSetCookie))
    ELSE IF devices = {} \/ DbOutcome(schema.ledger, fUpdate) # "ok"
    THEN NoChange(Response(200, None, [updated |-> FALSE, reason |-> "no match"], NoSetCookie))
    ELSE Result(Response(200, None, [updated |-> TRUE], NoSetCookie),
                prefs, {[d EXCEPT !.last_seen = now] : d \in devices}, FALSE)

\* update({ last_seen: now }).eq('token_hash', hash): no check of the session
RefreshPOST(raw, fUpdate) ==
    LET outcome == DbOutcome(schema.ledger, fUpdate)
        hit     == {d \in devices : d.token_hash = Sha256(raw)}
        touched == {[d EXCEPT !.last_seen = now] : d \in hit} \cup (devices \ hit)
        first   == CHOOSE d \in hit : TRUE
    IN  IF raw.kind = "none"
        THEN NoChange(Response(200, None, [updated |-> FALSE, reason |-> "no cookie"], NoSetCookie))
        ELSE IF outcome = "throw"
        THEN NoChange(Response(200, None, [updated |-> FALSE, reason |-> "internal"], NoSetCookie))
        ELSE IF outcome = "missing"
        THEN NoChange(Response(200, None,
                               [updated |-> FALSE, warning |-> "trusted_devices table missing"],
                               NoSetCookie))
        ELSE IF outcome = "error" THEN NoChange(isoError(ErrorMessage(outcome, "ledger")))
        ELSE IF hit = {}
        THEN NoChange(Response(200, None, [updated |-> FALSE, reason |-> "no match"], NoSetCookie))
        ELSE Result(Response(200, None,
                             [updated |-> TRUE, id |-> first.id, userId |-> first.user_id],
                             NoSetCookie),
                    prefs, touched, FALSE)

----------------------------------------------------------------------------
(* POST /api/dashboard/trusted-devices/revoke *)

\* the request names no device
NoId == 0

\* Variant: the delete by id has lost its filter on user_id.
MutRevokeIgnoresOwner(userId, auth, id, fDelete) ==
    LET verified == verifyUserFromRequest(auth, userId)
        target   == IF id # NoId
                    THEN {d \in devices : d.id = id}
                    ELSE {d \in devices : d.user_id = userId}
    IN  IF ~verified.ok THEN NoChange(Response(verified.status, verified.reason, NoBody, NoSetCookie))
        ELSE IF DbOutcome(schema.ledger, fDelete) # "ok" THEN NoChange(isoError(DefaultIsoError))
        ELSE Result(Response(200, None, [success |-> TRUE], NoSetCookie),
                    prefs, devices \ target, FALSE)

RevokePOST(userId, auth, id, fDelete) ==
    LET verified == verifyUserFromRequest(auth, userId)
        outcome  == DbOutcome(schema.ledger, fDelete)
        target   == IF id # NoId
                    THEN {d \in devices : d.id = id /\ d.user_id = userId}
                    ELSE {d \in devices : d.user_id = userId}
    IN  IF ~verified.ok THEN NoChange(Response(verified.status, verified.reason, NoBody, NoSetCookie))
        ELSE IF outcome = "throw" THEN NoChange(isoError(DefaultIsoError))
        ELSE IF outcome = "missing"
        THEN NoChange(Response(200, None,
                               [success |-> TRUE, warning |-> "trusted_devices table missing"],
                               NoSetCookie))
        ELSE IF outcome = "error" THEN NoChange(isoError(ErrorMessage(outcome, "ledger")))
        ELSE Result(Response(200, None, [success |-> TRUE], NoSetCookie),
                    prefs, devices \ target, FALSE)

----------------------------------------------------------------------------
(* POST /api/dashboard/delete-account *)

\* The route deletes the profiles row (a failure is logged and ignored) and
\* then the auth user; trusted_devices rows go with the profiles row through
\* the foreign key ON DELETE CASCADE and are deleted by nothing else.
DeleteAccountPOST(userId, auth, fProfiles, fAuthUser) ==
    LET verified  == verifyUserFromRequest(auth, userId)
        oProfiles == DbOutcome(TRUE, fProfiles)
        oAuthUser == DbOutcome(TRUE, fAuthUser)
        cascaded  == IF oProfiles = "ok" THEN {d \in devices : d.user_id # userId} ELSE devices
        profiles  == IF oProfiles = "ok" THEN [prefs EXCEPT ![userId] = NoPrefs] ELSE prefs
    IN  IF ~verified.ok THEN NoChange(Response(verified.status, verified.reason, NoBody, NoSetCookie))
        ELSE IF oAuthUser = "error"
        THEN Result(Response(500, StorageErrorText, NoBody, NoSetCookie), profiles, cascaded, FALSE)
        ELSE IF oAuthUser = "throw"
        THEN Result(isoError("Failed to delete auth user"), profiles, cascaded, FALSE)
        ELSE Result(Response(200, None, [success |-> TRUE], NoSetCookie), profiles, cascaded, FALSE)

----------------------------------------------------------------------------
(* Actions: requests to the ledger routes *)

\* DashboardLayout calls refresh on every dashboard page; the route reads only
\* the trusted_device cookie
RefreshRequest(b, fUpdate) ==
    /\ LET r == RefreshPOST(cookie[b], fUpdate)
       IN  /\ last' = [op |-> "refresh", resp |-> r.resp]
           /\ devices' = r.devices
    /\ UNCHANGED <<throttleVars, schema, prefs, session, cookie, pc, nextToken, failedCodes>>

\* `last` also keeps what was asked and how many records the call removed
RevokeRequest(b, userId, auth, id, fDelete) ==
    /\ session[b] # NoUser
    /\ LET r == RevokePOST(userId, auth, id, fDelete)
       IN  /\ last' = [op |-> "revoke", resp |-> r.resp, userId |-> userId, id |-> id,
                       removed |-> Cardinality(devices \ r.devices)]
           /\ devices' = r.devices
    /\ UNCHANGED <<throttleVars, schema, prefs, session, cookie, pc, nextToken, failedCodes>>

\* after a successful deletion the auth user is gone and with it the session
DeleteAccountRequest(b, userId, auth, fProfiles, fAuthUser) ==
    /\ session[b] # NoUser
    /\ LET r    == DeleteAccountPOST(userId, auth, fProfiles, fAuthUser)
           gone == r.resp.status = 200
       IN  /\ last' = [op |-> "delete-account", resp |-> r.resp, userId |-> userId]
           /\ prefs' = r.prefs
           /\ devices' = r.devices
           /\ session' = IF gone THEN [session EXCEPT ![b] = NoUser] ELSE session
           /\ pc' = IF gone THEN [pc EXCEPT ![b] = "PasswordPending"] ELSE pc
    /\ UNCHANGED <<throttleVars, schema, cookie, nextToken, failedCodes>>

----------------------------------------------------------------------------
(* Specification of the ledger routes *)

\* number of trusted-device records issued before the first step
MaxRows == 3

\* the user a record was issued to: tokens were issued to u1 and u2 in turn
OwnerOf(n) == IF n % 2 = 1 THEN "u1" ELSE "u2"

IssuedRows == {DeviceRow(OwnerOf(n), n) : n \in 1..MaxRows}

EnrolledPrefs ==
    [totp |-> [enabled |-> TRUE, secret |-> "S1", createdAt |-> 0], theme |-> "dark"]

LedgerTickSteps == {60 * 1000}

\* Both users have enrolled and have verified codes from several browsers; some
\* of the records issued have since been revoked.  A user is signed in at the
\* browser, whose trusted_device cookie is absent, forged, legacy or one of the
\* issued tokens.
LedgerInit ==
    /\ now = 0
    /\ emailAttempts = [k \in EmailKeys |-> NoEntry]
    /\ ipAttempts = [k \in IpKeys |-> NoEntry]
    /\ calls = 0
    /\ ticks = 0
    /\ lastDenied = [k \in EmailKeys |-> NoDenial]
    /\ inflight = NoneInFlight
    /\ last = NoRequest
    /\ schema \in [prefs : {TRUE}, ledger : BOOLEAN]
    /\ prefs = [u \in Users |-> EnrolledPrefs]
    /\ devices \in (IF schema.ledger THEN SUBSET IssuedRows ELSE {{}})
    /\ session \in [Browsers -> Users]
    /\ cookie \in [Browsers -> ClientCookies \cup {RawToken(n) : n \in 1..MaxRows}]
    /\ pc = [b \in Browsers |-> "Complete"]
    /\ nextToken = MaxRows
    /\ failedCodes = [b \in Browsers |-> 0]

LedgerNext ==
    \/ \E b \in Browsers, fault \in Faults : RefreshRequest(b, fault)
    \/ \E b \in Browsers : \E u \in Users, auth \in AuthOf(b), id \in 0..MaxRows,
                             fault \in Faults :
          /\ ReachesStorage(b, u) \/ fault = "none"
          /\ RevokeRequest(b, u, auth, id, fault)
    \/ \E b \in Browsers : \E u \in Users, auth \in AuthOf(b), plan \in FaultPlans(2) :
          /\ ReachesStorage(b, u) \/ plan.at = 0
          /\ DeleteAccountRequest(b, u, auth, FaultAt(plan, 1), FaultAt(plan, 2))
    \/ \E d \in LedgerTickSteps : Tick(d)

SpecLedger == LedgerInit /\ [][LedgerNext]_vars

----------------------------------------------------------------------------
(* Claims about the ledger routes *)

\* the records whose token_hash is the hash of the cookie browser b presents
Presented(b) == {d \in devices : d.token_hash = Sha256(cookie[b])}

\* the step changed at most last_seen of the records presented by b
OnlyLastSeenOfPresented(b) ==
    /\ \A d \in devices :
          \/ d \in devices'
          \/ d \in Presented(b) /\ [d EXCEPT !.last_seen = now] \in devices'
    /\ devices' \subseteq devices \cup {[d EXCEPT !.last_seen = now] : d \in Presented(b)}

OwnedBy(u) == {d \in devices : d.user_id = u}

\* what revoke(u, id) is to delete: the record with that id when u owns it, or
\* every record of u when no id is given
RevokeTarget(u, id) ==
    IF id = NoId THEN OwnedBy(u) ELSE {d \in OwnedBy(u) : d.id = id}

\* C14: revoke(userId, deviceId) deletes exactly the record with that id when
\* it is owned by userId and nothing otherwise; revoke(userId) without an id
\* deletes all and only the records owned by userId.  A revoke that does not
\* succeed deletes nothing, and in no case is a record of another user deleted,
\* even when deviceId names one.
C14_RevokeExactlyOwned ==
    [][last'.op = "revoke" =>
       \A b \in Browsers, u \in Users, id \in 0..MaxRows, fault \in Faults :
         (/\ u = last'.userId
          /\ id = last'.id
          /\ \E auth \in AuthOf(b) : RevokeRequest(b, u, auth, id, fault)) =>
            /\ devices' \subseteq devices
            /\ (devices \ devices') \subseteq RevokeTarget(u, id)
            /\ \A d \in devices : d.user_id # u => d \in devices'
            /\ IF last'.resp.status = 200 /\ "warning" \notin DOMAIN last'.resp.body
               THEN devices' = devices \ RevokeTarget(u, id)
               ELSE devices' = devices]_vars

\* a revoke by id has just removed one record of its user; another record of
\* that user and a record of the other user are still in the ledger
C14_Witness ==
    /\ last.op = "revoke"
    /\ last.resp.status = 200
    /\ last.id # NoId
    /\ last.removed = 1
    /\ \A d \in devices : d.id # last.id
    /\ \E d \in devices : d.user_id = last.userId
    /\ \E d \in devices : d.user_id # last.userId

\* C15: after an account deletion request has returned success for a user, no
\* trusted-device record owned by that user remains in the ledger.
C15_DeletionLeavesNoDevice ==
    (last.op = "delete-account" /\ last.resp.status = 200) => OwnedBy(last.userId) = {}

----------------------------------------------------------------------------
(* Claims about the order of the two throttle counters *)

OriginDenial == "Too many requests from this IP"

\* the origin window that is open for key ip at the current time
OriginWindowOpen(ip) ==
    /\ ipAttempts[ip] # NoEntry
    /\ now - ipAttempts[ip].windowStart < IP_WINDOW_MS

\* C16: every login-attempt call counts on the origin counter, and when that
\* counter then exceeds 200 the call is denied by the origin counter with the
\* rest of the origin window rounded up to whole seconds, while the account
\* counters are exactly as they were before the call.
C16_OriginCountedFirst ==
    [][calls' = calls + 1 =>
        LET ip   == last'.ip
            rest == ipAttempts'[ip].windowStart + IP_WINDOW_MS - now
        IN  /\ ipAttempts'[ip].count =
                 IF OriginWindowOpen(ip) THEN ipAttempts[ip].count + 1 ELSE 1
            /\ ipAttempts'[ip].count > IP_MAX =>
                 /\ last'.status = 429
                 /\ last'.error = OriginDenial
                 /\ last'.retryAfter * 1000 >= rest
                 /\ (last'.retryAfter - 1) * 1000 < rest
                 /\ emailAttempts' = emailAttempts]_vars

\* a call carrying an account key is denied by the origin counter 450.5 s into
\* the origin window: 3149.5 s are left, 3150 reported, the key is not counted
C16_Witness ==
    /\ last.op = "login-attempt"
    /\ last.email = "a@x.io"
    /\ last.status = 429
    /\ last.error = OriginDenial
    /\ ipAttempts["10.0.0.1"].count = IP_MAX + 1
    /\ now = 450500
    /\ last.retryAfter = 3150
    /\ emailAttempts["a@x.io"] = NoEntry

----------------------------------------------------------------------------
(* Claims about the fixed window and the retry after a denial *)

\* the window recorded for key has run out at the current time
Elapsed(map, key, windowMs) ==
    /\ map[key] # NoEntry
    /\ now - map[key].windowStart >= windowMs

Fresh == [count |-> 1, windowStart |-> now]

\* A denied caller waits the retryAfter seconds of the last response.
RetryWaits ==
    IF last.op = "login-attempt" /\ last.status = 429
    THEN {last.retryAfter * 1000} ELSE {}

RetryWait == \E d \in RetryWaits : Tick(d)

RetryTickSteps == {450500}

RetryNext ==
    \/ \E raw \in RawEmailsOf({"a@x.io"}), xff \in {"", "10.0.0.1"} : LoginAttempt(raw, xff)
    \/ \E d \in RetryTickSteps : Tick(d)
    \/ RetryWait

SpecRetry == ThrottleInit /\ [][RetryNext]_vars

\* the call of this step comes at least retryAfter seconds after the denial
\* that the preceding call received from the counter named by `denial`
RetriesAfter(denial) ==
    /\ last.op = "login-attempt"
    /\ last.status = 429
    /\ last.error = denial
    /\ now >= last.at + last.retryAfter * 1000

\* C17 as stated: a call for a key whose window has run out sets the key's
\* counter to count 1 starting now and is not denied by that counter, for
\* the origin key and for the account key alike; so does the retry of a
\* caller who waited the retryAfter seconds of the denial.
C17_AsStated ==
    [][calls' = calls + 1 =>
        LET ip    == last'.ip
            email == last'.email
        IN  /\ (Elapsed(ipAttempts, ip, IP_WINDOW_MS)
                  \/ (RetriesAfter(OriginDenial) /\ ip = last.ip)) =>
                  /\ ipAttempts'[ip] = Fresh
                  /\ last'.error # OriginDenial
            /\ (/\ email # NoKey
                /\ \/ Elapsed(emailAttempts, email, EMAIL_WINDOW_MS)
                   \/ (RetriesAfter(AccountDenial) /\ email = last.email)) =>
                  /\ emailAttempts'[email] = Fresh
                  /\ last'.error # AccountDenial]_vars

\* C17 (amended): a call for an origin key whose window has run out sets the
\* origin counter to count 1 starting now and is not denied by it; a call
\* for an account key whose window has run out does the same to the account
\* counter unless the origin counter denies the call, in which case the
\* account counter keeps its old window; the retry of a caller who waited
\* the retryAfter seconds of a denial is such a call for the denying counter.
C17_WindowReset ==
    [][calls' = calls + 1 =>
        LET ip    == last'.ip
            email == last'.email
        IN  /\ (Elapsed(ipAttempts, ip, IP_WINDOW_MS)
                  \/ (RetriesAfter(OriginDenial) /\ ip = last.ip)) =>
                  /\ ipAttempts'[ip] = Fresh
                  /\ last'.error # OriginDenial
            /\ (/\ email # NoKey
                /\ \/ Elapsed(emailAttempts, email, EMAIL_WINDOW_MS)
                   \/ (RetriesAfter(AccountDenial) /\ email = last.email)) =>
                  IF last'.error = OriginDenial
                  THEN emailAttempts'[email] = emailAttempts[email]
                  ELSE /\ emailAttempts'[email] = Fresh
                       /\ last'.error # AccountDenial]_vars

\* the 6th call of a window is denied 450.5 s into it with retryAfter 450;
\* the caller retries 450 s later, at 900.5 s, and opens a new window
C17_Witness ==
    /\ last.op = "login-attempt"
    /\ last.email = "a@x.io"
    /\ last.status = 200
    /\ last.at = 900500
    /\ lastDenied["a@x.io"] = [window |-> 0, retryAfter |-> 450, error |-> AccountDenial]
    /\ emailAttempts["a@x.io"] = [count |-> 1, windowStart |-> 900500]

----------------------------------------------------------------------------
(* Claims about the account counter and the origins *)

PlainEmails == [key : EmailKeys, form : {"plain"}]

\* Origins are interchangeable: a request from an origin not seen so far is
\* taken to come from the first such origin of OriginOrder.
SeenOrFirstUnseen(xff) ==
    \A i \in DOMAIN OriginOrder :
        OriginOrder[i] = xff =>
            \A h \in 1..(i - 1) : ipAttempts[OriginOrder[h]] # NoEntry

AccountsNext ==
    \/ \E raw \in PlainEmails, xff \in Origins :
          SeenOrFirstUnseen(xff) /\ LoginAttempt(raw, xff)

SpecAccounts == ThrottleInit /\ [][AccountsNext]_vars

\* the account window that is open for key e at the current time
AccountWindowOpen(e) ==
    /\ emailAttempts[e] # NoEntry
    /\ now - emailAttempts[e].windowStart < EMAIL_WINDOW_MS

\* C18: a call for an account key that the origin counter lets through is
\* counted on that key's one counter whatever its origin, is denied by the
\* account counter as soon as 5 calls are already counted in the open window,
\* even from an origin never seen before, and leaves the counter of every
\* other account key as it was.
C18_AccountLimitWhateverOrigin ==
    [][calls' = calls + 1 =>
        LET e  == last'.email
            ip == last'.ip
        IN  e # NoKey =>
            /\ \A k \in EmailKeys \ {e} : emailAttempts'[k] = emailAttempts[k]
            /\ last'.error # OriginDenial =>
                 /\ emailAttempts'[e].count =
                      IF AccountWindowOpen(e) THEN emailAttempts[e].count + 1 ELSE 1
                 /\ WindowFull(e) <=> last'.error = AccountDenial
            /\ WindowFull(e) => last'.status = 429
            /\ (WindowFull(e) /\ ipAttempts'[ip].count <= IP_MAX) =>
                 last'.error = AccountDenial]_vars

\* six calls for one key, each from a different origin seen for the first
\* time: the sixth is denied by the account counter, the other key is untouched
C18_Witness ==
    /\ last.op = "login-attempt"
    /\ last.email = "a@x.io"
    /\ last.status = 429
    /\ last.error = AccountDenial
    /\ emailAttempts["a@x.io"].count = EMAIL_MAX + 1
    /\ emailAttempts["b@x.io"] = NoEntry
    /\ \A k \in Origins : ipAttempts[k].count = 1

----------------------------------------------------------------------------
(* Concurrent login-attempt requests in one server process *)

\* One origin is two calls short of its limit when the requests arrive.
PreloadedOrigin == "10.0.0.1"
Headroom == 2
Preloaded(ip) == IF ip = PreloadedOrigin THEN IP_MAX - Headroom ELSE 0

ConcurrentInit ==
    /\ now = 0
    /\ emailAttempts = [k \in EmailKeys |-> NoEntry]
    /\ ipAttempts = [k \in IpKeys |-> IF k = PreloadedOrigin
                                      THEN [count |-> Preloaded(k), windowStart |-> 0]
                                      ELSE NoEntry]
    /\ calls = 0
    /\ ticks = 0
    /\ lastDenied = [k \in EmailKeys |-> NoDenial]
    /\ inflight = NoneInFlight
    /\ last = NoRequest
    /\ AppInit
    /\ schema = [prefs |-> TRUE, ledger |-> TRUE]

\* The requests under way carry the same account key and the same origin.
SameKeys(q, raw, xff) ==
    q > 1 => /\ inflight[1].raw = raw
             /\ inflight[1].xff = xff

\* The handler is entered and suspends at `await req.json()`.  Requests are
\* numbered in the order of their arrival.
Receive(q, raw, xff) ==
    /\ inflight[q] = Idle
    /\ \A h \in 1..(q - 1) : inflight[h] # Idle
    /\ SameKeys(q, raw, xff)
    /\ inflight' = [inflight EXCEPT ![q] = [pc |-> "parsing", raw |-> raw, xff |-> xff]]
    /\ UNCHANGED <<now, emailAttempts, ipAttempts, calls, ticks, lastDenied, last>>
    /\ UNCHANGED appVars

\* an increment that works on entries read before the request that finished
\* last stored its own, as if the handler were suspended between map.get and
\* map.set
MutCountersFoundBeforeLastWrite(q) ==
    LET email == NormaliseEmail(inflight[q].raw)
        ip    == ClientIp(inflight[q].xff)
        Before(e) == IF e.count <= 1 THEN NoEntry ELSE [e EXCEPT !.count = @ - 1]
    IN  IF last.op # "login-attempt"
        THEN [ip |-> ipAttempts, email |-> emailAttempts]
        ELSE [ip    |-> [ipAttempts EXCEPT ![ip] = Before(@)],
              email |-> IF email = NoKey THEN emailAttempts
                        ELSE [emailAttempts EXCEPT ![email] = Before(@)]]

\* The entries incrMap reads: map.get runs after the await, in the same turn
\* of the event loop as map.set.
CountersFound(q) == [ip |-> ipAttempts, email |-> emailAttempts]

\* The body has been parsed: the rest of the handler runs to its return
\* without suspending, and map.set stores the entries of the request's keys.
Finish(q) ==
    /\ inflight[q].pc = "parsing"
    /\ LET raw   == inflight[q].raw
           xff   == inflight[q].xff
           email == NormaliseEmail(raw)
           ip    == ClientIp(xff)
           f     == CountersFound(q)
           r     == ThrottleHandler(f.ip, f.email, raw, xff)
       IN  /\ ipAttempts' = [ipAttempts EXCEPT ![ip] = r.ip[ip]]
           /\ emailAttempts' =
                IF email = NoKey \/ r.email = f.email THEN emailAttempts
                ELSE [emailAttempts EXCEPT ![email] = r.email[email]]
           /\ inflight' = [inflight EXCEPT ![q] =
                [pc |-> "done", raw |-> raw, xff |-> xff,
                 status |-> r.resp.status, error |-> r.resp.error]]
           /\ last' = [op |-> "login-attempt", email |-> email,
                       ip |-> ip, at |-> now,
                       status |-> r.resp.status, error |-> r.resp.error,
                       retryAfter |-> r.resp.retryAfter]
           /\ lastDenied' = DeniedAfter(r, email)
    /\ calls' = calls + 1
    /\ UNCHANGED <<now, ticks>>
    /\ UNCHANGED appVars

ConcurrentNext ==
    \/ \E q \in Requests, raw \in PlainEmails, xff \in {"", PreloadedOrigin} :
          Receive(q, raw, xff)
    \/ \E q \in Requests : Finish(q)

SpecConcurrent == ConcurrentInit /\ [][ConcurrentNext]_vars

(* Claims about concurrent requests *)

Done == {q \in Requests : inflight[q].pc = "done"}
DoneFrom(ip) == {q \in Done : ClientIp(inflight[q].xff) = ip}
DoneFor(e) == {q \in Done : NormaliseEmail(inflight[q].raw) = e}
Admitted(qs) == {q \in qs : inflight[q].status = 200}

\* C19 as stated: whatever the interleaving, each key's counter has grown by
\* the number of requests for that key handled so far, and no more than 5
\* requests per account key and 200 per origin key are admitted.
C19_AsStated ==
    /\ \A ip \in IpKeys :
          /\ ipAttempts[ip].count = Preloaded(ip) + Cardinality(DoneFrom(ip))
          /\ Preloaded(ip) + Cardinality(Admitted(DoneFrom(ip))) <= IP_MAX
    /\ \A e \in EmailKeys :
          /\ emailAttempts[e].count = Cardinality(DoneFor(e))
          /\ Cardinality(Admitted(DoneFor(e))) <= EMAIL_MAX

\* C19 (amended): whatever the interleaving, each origin counter has grown
\* by the number of requests handled from that origin, each account counter
\* by the number of requests for that key which the origin counter did not
\* deny, and no more than 5 requests per account key and 200 per origin key
\* are admitted.
C19_AtomicIncrements ==
    /\ \A ip \in IpKeys :
          /\ ipAttempts[ip].count = Preloaded(ip) + Cardinality(DoneFrom(ip))
          /\ Preloaded(ip) + Cardinality(Admitted(DoneFrom(ip))) <= IP_MAX
    /\ \A e \in EmailKeys :
          /\ emailAttempts[e].count =
                Cardinality({q \in DoneFor(e) : inflight[q].error # OriginDenial})
          /\ Cardinality(Admitted(DoneFor(e))) <= EMAIL_MAX

\* six requests for one key were all suspended together; the one that
\* arrived first resumed last and is the one denied, the counter stands at 6
C19_Witness ==
    /\ Done = Requests
    /\ \A q \in Requests : inflight[q].raw.key = "a@x.io" /\ inflight[q].xff = ""
    /\ inflight[1].status = 429
    /\ inflight[1].error = AccountDenial
    /\ last.at = 0
    /\ Cardinality(Admitted(Requests)) = EMAIL_MAX
    /\ emailAttempts["a@x.io"].count = Cardinality(Requests)

----------------------------------------------------------------------------
(* The login form in front of a throttle that is about to deny *)

\* The account key or the origin of the login form may have used up its
\* window; the account may have enrolled a second factor.
LoginInit ==
    /\ now = 0
    /\ emailAttempts \in {[k \in EmailKeys |-> NoEntry],
                          [k \in EmailKeys |-> IF k = EmailOf["u1"]
                                               THEN [count |-> EMAIL_MAX, windowStart |-> 0]
                                               ELSE NoEntry]}
    /\ ipAttempts \in {[k \in IpKeys |-> NoEntry],
                       [k \in IpKeys |-> IF k = "unknown"
                                         THEN [count |-> IP_MAX, windowStart |-> 0]
                                         ELSE NoEntry]}
    /\ calls = 0
    /\ ticks = 0
    /\ lastDenied = [k \in EmailKeys |-> NoDenial]
    /\ inflight = NoneInFlight
    /\ last = NoRequest
    /\ schema = [prefs |-> TRUE, ledger |-> TRUE]
    /\ prefs \in {[u \in Users |-> SavedPrefs], [u \in Users |-> EnrolledPrefs]}
    /\ devices = {}
    /\ session = [b \in Browsers |-> NoUser]
    /\ cookie = [b \in Browsers |-> NoCookie]
    /\ pc = [b \in Browsers |-> "PasswordPending"]
    /\ nextToken = 0
    /\ failedCodes = [b \in Browsers |-> 0]

LoginNext ==
    \/ \E b \in Browsers, raw \in LoginEmails, passwordOk \in BOOLEAN, fThrottle \in Faults :
          LoginSubmit(b, raw, "", passwordOk, fThrottle)
    \/ \E b \in Browsers, plan \in FaultPlans(2), fetchThrows \in BOOLEAN :
          /\ fetchThrows => plan.at = 0
          /\ LoginRoute(b, FaultAt(plan, 1), FaultAt(plan, 2), fetchThrows)
    \/ \E b \in Browsers : Logout(b)
    \/ \E d \in TickSteps : Tick(d)

SpecLogin == LoginInit /\ [][LoginNext]_vars

(* Claims about a failed login attempt *)

Advanced == {"PasswordVerified", "SecondFactorRequired", "Complete"}

\* the last thing the login form did was an attempt that failed
AttemptFailed == last.op = "login" /\ last.resp.status # 200

\* C20: an attempt that the throttle pre-check does not admit never calls the
\* credential store; an attempt that fails, at the pre-check or at the
\* credential store, leaves the flow and the session where they were; and
\* after a failed attempt no second-factor lookup is made and the flow reaches
\* neither the challenge nor the dashboard until another attempt is accepted.
C20_FailureIsTerminal ==
    [][/\ calls' = calls + 1 =>
            /\ last'.throttle # 200 => (~last'.storeCalled /\ last'.resp.status # 200)
            /\ last'.resp.status # 200 => (pc' = pc /\ session' = session)
       /\ AttemptFailed =>
            /\ last'.op # "login-route"
            /\ \A b \in Browsers : pc[b] \notin Advanced =>
                 pc'[b] \in {"PasswordPending", "PasswordVerified"}
       /\ last'.op = "login-route" /\ last.op # "login-route" =>
            last.op = "login" /\ last.resp.status = 200]_vars

\* an enrolled user's attempt with the right password is denied by the
\* account counter: the store is not called and the flow stays where it was
C20_Witness ==
    /\ last.op = "login"
    /\ last.throttle = 429
    /\ last.resp.error = AccountDenial
    /\ last.passwordOk
    /\ ~last.storeCalled
    /\ prefs["u1"] = EnrolledPrefs
    /\ pc["b1"] = "PasswordPending"
    /\ session["b1"] = NoUser

----------------------------------------------------------------------------
(* Claims about failures during the second-factor flow *)

\* the profile lookup of the login form is made in this step
LookupStep == last'.op = "login-route" /\ last.op # "login-route"

\* C21: when the profile lookup made after an accepted password fails (the
\* route answers an error or another non-OK status, or the fetch throws),
\* the login form goes on to the dashboard, not to the challenge and not
\* back to the password form.
C21_LookupFailureCompletes ==
    [][(LookupStep /\ last'.resp.status # 200) =>
          \A b \in Browsers : pc[b] = "PasswordVerified" => pc'[b] = "Complete"]_vars

\* an enrolled user without a trusted device signs in, the profile route
\* answers 500, and the form has gone to the dashboard
C21_Witness ==
    /\ last.op = "login-route"
    /\ last.resp.status = 500
    /\ prefs["u1"] = EnrolledPrefs
    /\ cookie["b1"] = NoCookie
    /\ session["b1"] = "u1"
    /\ pc["b1"] = "Complete"

----------------------------------------------------------------------------
(* The two verify routes with codes of other time steps and malformed input *)

\* valid secrets of two authenticators
CodeSecrets == {"S1", "S2"}

\* time steps of a submitted code, relative to the current one
Offsets == {-StaleSteps, -2, 0, 2, StaleSteps}

\* the codes a client types: the code of some authenticator for a time step
\* near or far from the current one, or text that is no code
CodesOf(secrets) ==
    {CodeOf(s, TotpStep(now) + k) : s \in secrets, k \in Offsets} \cup {Malformed}
CodesAround == CodesOf(CodeSecrets)

\* what the enrollment page posts: the secret of the setup step, or text that
\* is no secret, with a code typed from the authenticator
PostedEnrollments ==
    UNION {{[secret |-> s, token |-> t] : t \in CodesOf({s})} : s \in CodeSecrets}
    \cup {[secret |-> MalformedSecret, token |-> CodeOf(s, TotpStep(now))] : s \in CodeSecrets}

\* one time step of the authenticator passes
CodeTickSteps == {30 * 1000}

\* u1 has signed in at the browser and has been routed: to the challenge if
\* the account is enrolled, to the dashboard if not.
CodesInit ==
    /\ now = 0
    /\ emailAttempts = [k \in EmailKeys |-> NoEntry]
    /\ ipAttempts = [k \in IpKeys |-> NoEntry]
    /\ calls = 0
    /\ ticks = 0
    /\ lastDenied = [k \in EmailKeys |-> NoDenial]
    /\ inflight = NoneInFlight
    /\ last = NoRequest
    /\ schema \in [prefs : {TRUE}, ledger : BOOLEAN]
    /\ prefs \in {[u \in Users |-> SavedPrefs], [u \in Users |-> EnrolledPrefs]}
    /\ devices = {}
    /\ session = [b \in Browsers |-> "u1"]
    /\ cookie = [b \in Browsers |-> NoCookie]
    /\ pc = [b \in Browsers |-> IF prefs[session[b]].totp # NoTotp
                                 THEN "SecondFactorRequired" ELSE "Complete"]
    /\ nextToken = 0
    /\ failedCodes = [b \in Browsers |-> 0]

CodesNext ==
    \/ \E b \in Browsers, token \in CodesAround, plan \in FaultPlans(2) :
          VerifyLoginSubmit(b, token, FaultAt(plan, 1), FaultAt(plan, 2))
    \/ \E b \in Browsers : \E u \in Users, auth \in AuthOf(b),
                             p \in PostedEnrollments, plan \in FaultPlans(3) :
          /\ (ReachesStorage(b, u) /\ TotpOk(p.token, p.secret)) \/ plan.at = 0
          /\ EnrollVerifyRequest(b, u, auth, p.secret, p.token,
                                 FaultAt(plan, 1), FaultAt(plan, 2), FaultAt(plan, 3))
    \/ \E d \in CodeTickSteps : Tick(d)

SpecCodes == CodesInit /\ [][CodesNext]_vars

(* Claims about the check of a code *)

\* a code of an earlier time step: well formed and wrong
WrongCode(secret) == CodeOf(secret, TotpStep(now) - StaleSteps)

InvalidToken == Response(400, "invalid token", NoBody, NoSetCookie)

\* C22: a verify request (login-time or enrollment) whose code or secret
\* makes the library throw changes neither the configuration, the ledger,
\* the cookie nor the position in the login flow; whenever the request gets
\* as far as the check it is answered 400 "invalid token", and from the same
\* state with the same storage outcomes its answer is the one a well-formed
\* wrong code gets, so never an internal error of the check.
C22_CheckNeverFaults ==
    [][(last'.op \in {"verify-login", "enroll-verify"} /\ last'.malformed) =>
        /\ prefs' = prefs /\ devices' = devices /\ nextToken' = nextToken
        /\ cookie' = cookie /\ pc' = pc /\ session' = session
        /\ last'.op = "enroll-verify" => last'.resp.status \in {400, 401, 403}
        /\ last'.resp.status = 400 => last'.resp \in {InvalidToken,
                Response(400, "totp not configured", NoBody, NoSetCookie)}
        /\ last'.op = "verify-login" =>
             \A b \in Browsers, plan \in FaultPlans(2) :
                LET u  == session[b]
                    f1 == FaultAt(plan, 1)
                    f2 == FaultAt(plan, 2)
                    r  == VerifyLoginPOST(u, Malformed, f1, f2)
                IN  pc[b] = "SecondFactorRequired" =>
                      /\ r = VerifyLoginPOST(u, WrongCode(prefs[u].totp.secret), f1, f2)
                      /\ (DbOutcome(schema.prefs, f1) = "ok") => r.resp = InvalidToken
        /\ last'.op = "enroll-verify" =>
             \A b \in Browsers, u \in Users, secret \in CodeSecrets : \A auth \in AuthOf(b) :
                LET r == EnrollVerifyPOST(u, auth, secret, Malformed, "none", "none", "none")
                    s == EnrollVerifyPOST(u, auth, MalformedSecret, CodeOf(secret, TotpStep(now)),
                                          "none", "none", "none")
                    w == EnrollVerifyPOST(u, auth, secret, WrongCode(secret),
                                          "none", "none", "none")
                IN  /\ r = w /\ s = w
                    /\ verifyUserFromRequest(auth, u).ok => r.resp = InvalidToken]_vars

\* at the challenge of an enrolled user a code that is no 6-digit text was
\* submitted: answered "invalid token", no record, no cookie, still challenged
C22_Witness ==
    /\ last.op = "verify-login"
    /\ last.malformed
    /\ last.resp = InvalidToken
    /\ prefs["u1"].totp # NoTotp
    /\ pc["b1"] = "SecondFactorRequired"
    /\ cookie["b1"] = NoCookie
    /\ devices = {}

----------------------------------------------------------------------------
(* Claims about the ledger being unavailable *)

LedgerFails(fault) == DbOutcome(schema.ledger, fault) # "ok"

\* C24: while the trusted-device storage is unavailable or its insert fails, a
\* login-time verify and an enrollment verify with a valid code return success
\* and set the trusted_device cookie to a fresh raw token, and the trust check
\* of the login of an enrolled user leads to the challenge.
C24_LedgerNeverBlocks ==
    [][/\ last'.op = "verify-login" =>
            \A b \in Browsers, token \in SubmittedCodes, plan \in FaultPlans(2) :
              (/\ CodeVerifies(b, token, plan)
               /\ LedgerFails(FaultAt(plan, 2))
               /\ VerifyLoginSubmit(b, token, FaultAt(plan, 1), FaultAt(plan, 2)))
              => /\ last'.resp.status = 200
                 /\ pc'[b] = "Complete"
                 /\ cookie'[b] = RawToken(nextToken')
       /\ last'.op = "enroll-verify" =>
            \A b \in Browsers, secret \in Secrets, token \in SubmittedCodes,
               plan \in FaultPlans(3) :
              (/\ TotpOk(token, secret)
               /\ DbOutcome(schema.prefs, FaultAt(plan, 1)) = "ok"
               /\ DbOutcome(schema.prefs, FaultAt(plan, 2)) = "ok"
               /\ LedgerFails(FaultAt(plan, 3))
               /\ \E auth \in AuthOf(b) :
                     EnrollVerifyRequest(b, session[b], auth, secret, token,
                                         FaultAt(plan, 1), FaultAt(plan, 2), FaultAt(plan, 3)))
              => /\ last'.resp.status = 200
                 /\ cookie'[b] = RawToken(nextToken')
       /\ last'.op = "login-route" =>
            \A b \in Browsers, plan \in FaultPlans(2) :
              (/\ Enabled(session[b])
               /\ DbOutcome(schema.prefs, FaultAt(plan, 1)) = "ok"
               /\ LedgerFails(FaultAt(plan, 2))
               /\ LoginRoute(b, FaultAt(plan, 1), FaultAt(plan, 2), FALSE))
              => pc'[b] = "SecondFactorRequired"]_vars

----------------------------------------------------------------------------
(* Claims about the error results of the 2FA routes *)

TwoFactorOps == {"setup", "enroll-verify", "verify-login", "disable"}

\* the message of an error object of the storage client
RawStorageTexts == {StorageErrorText, MissingText("prefs"), MissingText("ledger")}

\* C25: no response of the setup, enrollment verify, verify-login and disable
\* routes carries the text of a storage error; a failure is answered with one of
\* the fixed error results.
C25_NoRawStorageText ==
    last.op \in TwoFactorOps => last.resp.error \notin RawStorageTexts

----------------------------------------------------------------------------
(* The dashboard opened by a browser that holds a session *)

\* DashboardLayout getUser: without a session the browser is sent to the login
\* page, with one the dashboard is rendered
OpenDashboard(b) ==
    /\ pc[b] = "SecondFactorRequired"
    /\ pc' = [pc EXCEPT ![b] = IF session[b] = NoUser THEN "PasswordPending" ELSE "Complete"]
    /\ last' = [op |-> "open-dashboard", resp |-> Response(200, None, NoBody, NoSetCookie)]
    /\ UNCHANGED <<throttleVars, schema, prefs, devices, session, cookie, nextToken, failedCodes>>

\* Both accounts are enrolled and no browser holds a trusted device.
DashboardInit ==
    /\ now = 0
    /\ emailAttempts = [k \in EmailKeys |-> NoEntry]
    /\ ipAttempts = [k \in IpKeys |-> NoEntry]
    /\ calls = 0
    /\ ticks = 0
    /\ lastDenied = [k \in EmailKeys |-> NoDenial]
    /\ inflight = NoneInFlight
    /\ last = NoRequest
    /\ schema = [prefs |-> TRUE, ledger |-> TRUE]
    /\ prefs = [u \in Users |-> EnrolledPrefs]
    /\ devices = {}
    /\ session = [b \in Browsers |-> NoUser]
    /\ cookie = [b \in Browsers |-> NoCookie]
    /\ pc = [b \in Browsers |-> "PasswordPending"]
    /\ nextToken = 0
    /\ failedCodes = [b \in Browsers |-> 0]

\* every lookup succeeds
DashboardNext ==
    \/ \E b \in Browsers, raw \in LoginEmails : LoginSubmit(b, raw, "", TRUE, "none")
    \/ \E b \in Browsers : LoginRoute(b, "none", "none", FALSE)
    \/ \E b \in Browsers, token \in SubmittedCodes : VerifyLoginSubmit(b, token, "none", "none")
    \/ \E b \in Browsers : OpenDashboard(b)
    \/ \E b \in Browsers : Logout(b)
    \/ \E d \in TickSteps : Tick(d)

SpecDashboard == DashboardInit /\ [][DashboardNext]_vars

\* C26: for an enrolled user whose browser presents no trusted device, with
\* every lookup succeeding, the browser gets from the correct password to the
\* dashboard only by a verify-login request that is answered with success.
C26_NoSkip ==
    [][\A b \in Browsers :
         (/\ pc[b] \in {"PasswordVerified", "SecondFactorRequired"}
          /\ Enabled(session[b])
          /\ ~MatchedDevice(session[b], cookie[b])
          /\ pc'[b] = "Complete")
         => (last'.op = "verify-login" /\ last'.resp.status = 200)]_vars

----------------------------------------------------------------------------
(* POST /api/auth/2fa/verify-login sent by any client *)

\* The route reads userId and token from the body; the request of browser b
\* names any user, whatever session b holds.
VerifyLoginRequest(b, userId, token) ==
    /\ LET r == VerifyLoginPOST(userId, token, "none", "none")
       IN  /\ last' = [op |-> "verify-login-request", resp |-> r.resp,
                       caller |-> session[b], userId |-> userId]
           /\ r.tokenUsed => nextToken < MaxTokens
           /\ prefs' = r.prefs
           /\ devices' = r.devices
           /\ nextToken' = IF r.tokenUsed THEN nextToken + 1 ELSE nextToken
           /\ cookie' = [cookie EXCEPT ![b] = CookieAfter(@, r.resp)]
    /\ UNCHANGED <<throttleVars, schema, session, pc, failedCodes>>

VerifyLoginNext ==
    \/ \E b \in Browsers, raw \in LoginEmails : LoginSubmit(b, raw, "", TRUE, "none")
    \/ \E b \in Browsers : LoginRoute(b, "none", "none", FALSE)
    \/ \E b \in Browsers, u \in Users, token \in SubmittedCodes : VerifyLoginRequest(b, u, token)
    \/ \E b \in Browsers : Logout(b)
    \/ \E d \in TickSteps : Tick(d)

SpecVerifyLogin == DashboardInit /\ [][VerifyLoginNext]_vars

\* C27: a verify-login request naming user U that comes from a browser with no
\* session, or with the session of another user, creates no trusted-device
\* record for U and is answered without a trust cookie.
C27_OnlyAfterPassword ==
    [][(last'.op = "verify-login-request" /\ last'.caller # last'.userId) =>
         /\ {d \in devices' : d.user_id = last'.userId} = OwnedDevices(last'.userId)
         /\ last'.resp.setCookie = NoSetCookie]_vars

----------------------------------------------------------------------------
(* Claims about device trust and the configuration it rests on *)

\* C28: between requests, a user who owns a trusted-device record has an
\* enabled second-factor configuration.
C28_TrustNeedsConfig ==
    \A u \in Users : OwnedDevices(u) # {} => Enabled(u)

----------------------------------------------------------------------------
(* GET /api/dashboard/trusted-devices *)

\* select('id,name,user_agent,created_at,last_seen')
ListedFields(d) ==
    [id |-> d.id, user_agent |-> d.user_agent, created_at |-> d.created_at,
     last_seen |-> d.last_seen]

TrustedDevicesGET(userId, auth, fSelect) ==
    LET verified == verifyUserFromRequest(auth, userId)
        outcome  == DbOutcome(schema.ledger, fSelect)
    IN  IF ~verified.ok THEN Response(verified.status, verified.reason, NoBody, NoSetCookie)
        ELSE IF outcome = "throw" THEN isoError(DefaultIsoError)
        ELSE IF outcome = "missing" THEN Response(200, None, [devices |-> {}], NoSetCookie)
        ELSE IF outcome = "error" THEN isoError(ErrorMessage(outcome, "ledger"))
        ELSE Response(200, None,
                      [devices |-> {ListedFields(d) : d \in OwnedDevices(userId)}],
                      NoSetCookie)

----------------------------------------------------------------------------
(* The owner routes called by any client *)

\* A client sends the session cookie of its browser, if it has one, and any
\* bearer token it holds: none, its own or that of another user.
Callers(b) == [cookieUser : {session[b]}, bearer : Users \cup {NoUser}]

OwnerOps == {"setup", "enroll-verify", "disable", "list", "revoke"}

\* the route `op` called for userId with the credentials auth
OwnerRoute(op, userId, auth, secret, id) ==
    IF op = "setup" THEN SetupPOST(userId, auth, secret)
    ELSE IF op = "enroll-verify"
    THEN EnrollVerifyPOST(userId, auth, secret, CodeOf(secret, TotpStep(now)),
                          "none", "none", "none")
    ELSE IF op = "disable" THEN DisablePOST(userId, auth, "none", "none", "none")
    ELSE IF op = "list" THEN NoChange(TrustedDevicesGET(userId, auth, "none"))
    ELSE RevokePOST(userId, auth, id, "none")

OwnerCall(b, op, userId, auth, secret, id) ==
    /\ LET r == OwnerRoute(op, userId, auth, secret, id)
       IN  /\ last' = [op |-> op, resp |-> r.resp, userId |-> userId, auth |-> auth]
           /\ r.tokenUsed => nextToken < MaxRows + MaxTokens
           /\ prefs' = r.prefs
           /\ devices' = r.devices
           /\ nextToken' = IF r.tokenUsed THEN nextToken + 1 ELSE nextToken
           /\ cookie' = [cookie EXCEPT ![b] = CookieAfter(@, r.resp)]
    /\ UNCHANGED <<throttleVars, schema, session, pc, failedCodes>>

\* Both users have enrolled and own some of the records issued; the browser
\* holds the session of one of them or none.
OwnerInit ==
    /\ now = 0
    /\ emailAttempts = [k \in EmailKeys |-> NoEntry]
    /\ ipAttempts = [k \in IpKeys |-> NoEntry]
    /\ calls = 0
    /\ ticks = 0
    /\ lastDenied = [k \in EmailKeys |-> NoDenial]
    /\ inflight = NoneInFlight
    /\ last = NoRequest
    /\ schema = [prefs |-> TRUE, ledger |-> TRUE]
    /\ prefs = [u \in Users |-> EnrolledPrefs]
    /\ devices \in SUBSET IssuedRows
    /\ session \in [Browsers -> Users \cup {NoUser}]
    /\ cookie = [b \in Browsers |-> NoCookie]
    /\ pc = [b \in Browsers |-> IF session[b] = NoUser THEN "PasswordPending" ELSE "Complete"]
    /\ nextToken = MaxRows
    /\ failedCodes = [b \in Browsers |-> 0]

OwnerNext ==
    \/ \E b \in Browsers, u \in Users : \E auth \in Callers(b), secret \in CodeSecrets :
          OwnerCall(b, "setup", u, auth, secret, NoId)
    \/ \E b \in Browsers, u \in Users : \E auth \in Callers(b), secret \in CodeSecrets :
          OwnerCall(b, "enroll-verify", u, auth, secret, NoId)
    \/ \E b \in Browsers, u \in Users : \E auth \in Callers(b) :
          OwnerCall(b, "disable", u, auth, "S1", NoId)
    \/ \E b \in Browsers, u \in Users : \E auth \in Callers(b) :
          OwnerCall(b, "list", u, auth, "S1", NoId)
    \/ \E b \in Browsers, u \in Users, id \in 0..MaxRows : \E auth \in Callers(b) :
          OwnerCall(b, "revoke", u, auth, "S1", id)

SpecOwner == OwnerInit /\ [][OwnerNext]_vars

\* the caller holds the session or the bearer token of user u
AuthenticatedAs(auth, u) == auth.cookieUser = u \/ auth.bearer = u

----------------------------------------------------------------------------
(* Requests that write the preferences of one user at the same time *)

\* The enrollment verify and the disable route read profiles.preferences with
\* one storage call and write the whole object back with another; between the
\* two the handler is suspended and other requests run.  The settings POST is
\* one update.  Every request is sent by u1 for u1 and no storage call fails.
Writer == "u1"
WriterAuth == [cookieUser |-> Writer, bearer |-> NoUser]
RaceRequests == {1, 2}
RaceThemes == {"dark", "light"}

\* const merged = { ...prefs, totp }
EnrollMerged(read, secret) ==
    [read EXCEPT !.totp = [enabled |-> TRUE, secret |-> secret, createdAt |-> now]]

\* const merged = { ...prefs }; delete merged.totp
DisableMerged(read) == [read EXCEPT !.totp = NoTotp]

\* enrollment verify up to the select of preferences (the code was checked)
EnrollRead(q, secret) ==
    /\ inflight[q] = Idle
    /\ nextToken < MaxTokens
    /\ inflight' = [inflight EXCEPT ![q] =
                      [pc |-> "enroll-read", read |-> prefs[Writer], secret |-> secret]]
    /\ UNCHANGED <<now, emailAttempts, ipAttempts, calls, ticks, lastDenied, last>>
    /\ UNCHANGED appVars

\* the rest of the enrollment verify: update of preferences, insert of the
\* trusted-device record, cookie
EnrollWrite(q, b) ==
    /\ inflight[q].pc = "enroll-read"
    /\ session[b] = Writer
    /\ LET merged == EnrollMerged(inflight[q].read, inflight[q].secret)
           n      == nextToken + 1
       IN  /\ prefs' = [prefs EXCEPT ![Writer] = merged]
           /\ devices' = devices \cup {DeviceRow(Writer, n)}
           /\ nextToken' = n
           /\ cookie' = [cookie EXCEPT ![b] = RawToken(n)]
           /\ last' = [op |-> "enroll-verify-write", totp |-> merged.totp, theme |-> last.theme]
    /\ inflight' = [inflight EXCEPT ![q] = Idle]
    /\ UNCHANGED <<now, emailAttempts, ipAttempts, calls, ticks, lastDenied>>
    /\ UNCHANGED <<schema, session, pc, failedCodes>>

\* disable up to the select of preferences
DisableRead(q) ==
    /\ inflight[q] = Idle
    /\ inflight' = [inflight EXCEPT ![q] = [pc |-> "disable-read", read |-> prefs[Writer]]]
    /\ UNCHANGED <<now, emailAttempts, ipAttempts, calls, ticks, lastDenied, last>>
    /\ UNCHANGED appVars

\* the rest of disable: update of preferences if a totp member was read,
\* delete of the user's trusted-device records, expired cookie
DisableWrite(q, b) ==
    /\ inflight[q].pc = "disable-read"
    /\ session[b] = Writer
    /\ LET read   == inflight[q].read
           writes == read.totp # NoTotp
       IN  /\ prefs' = IF writes THEN [prefs EXCEPT ![Writer] = DisableMerged(read)] ELSE prefs
           /\ last' = IF writes
                      THEN [op |-> "disable-write", totp |-> NoTotp, theme |-> last.theme]
                      ELSE [last EXCEPT !.op = "disable-write"]
    /\ devices' = {d \in devices : d.user_id # Writer}
    /\ cookie' = [cookie EXCEPT ![b] = NoCookie]
    /\ inflight' = [inflight EXCEPT ![q] = Idle]
    /\ UNCHANGED <<now, emailAttempts, ipAttempts, calls, ticks, lastDenied>>
    /\ UNCHANGED <<schema, session, pc, nextToken, failedCodes>>

\* settings save: update({ preferences }) with the object the page posts
SettingsSave(theme) ==
    /\ theme # last.theme
    /\ LET r == SettingsPOST(Writer, WriterAuth, [totp |-> NoTotp, theme |-> theme], "none")
       IN  /\ prefs' = r.prefs
           /\ last' = [op |-> "settings-save", totp |-> last.totp, theme |-> theme]
    /\ UNCHANGED <<throttleVars, schema, devices, session, cookie, pc, nextToken, failedCodes>>

\* u1 is signed in and has saved the dark theme; nothing is enrolled.
RaceInit ==
    /\ now = 0
    /\ emailAttempts = [k \in EmailKeys |-> NoEntry]
    /\ ipAttempts = [k \in IpKeys |-> NoEntry]
    /\ calls = 0
    /\ ticks = 0
    /\ lastDenied = [k \in EmailKeys |-> NoDenial]
    /\ inflight = NoneInFlight
    /\ last = [op |-> "none", totp |-> NoTotp, theme |-> "dark"]
    /\ schema = [prefs |-> TRUE, ledger |-> TRUE]
    /\ prefs = [u \in Users |-> SavedPrefs]
    /\ devices = {}
    /\ session = [b \in Browsers |-> Writer]
    /\ cookie = [b \in Browsers |-> NoCookie]
    /\ pc = [b \in Browsers |-> "Complete"]
    /\ nextToken = 0
    /\ failedCodes = [b \in Browsers |-> 0]

RaceNext ==
    \/ \E theme \in RaceThemes : SettingsSave(theme)
    \/ \E q \in RaceRequests, secret \in CodeSecrets : EnrollRead(q, secret)
    \/ \E q \in RaceRequests, b \in Browsers : EnrollWrite(q, b)
    \/ \E q \in RaceRequests : DisableRead(q)
    \/ \E q \in RaceRequests, b \in Browsers : DisableWrite(q, b)

SpecRace == RaceInit /\ [][RaceNext]_vars

\* no request is between its read and its write
Quiescent == \A q \in RaceRequests : inflight[q] = Idle

\* C30: when no request is under way the stored preferences of the user hold
\* the totp configuration written by the enrollment verify or disable whose
\* write came last and the theme of the latest settings save.
C30_NoLostUpdate ==
    Quiescent => (prefs[Writer].totp = last.totp /\ prefs[Writer].theme = last.theme)

====
